---- MODULE Spec2Model ----
(***************************************************************************)
(* A model of TrackerMinerFS (src/src/libtracker-miner/tracker-miner-fs.c): *)
(* the four item queues, the processing pool, the queue handler and the     *)
(* crawl-directories hook, driven by monitor events, the extractor          *)
(* (process-file / tracker_miner_fs_notify_file), the store's replies to    *)
(* batch updates and the public calls.                                      *)
(*                                                                          *)
(* Every callback runs to completion on the main loop, so each is one       *)
(* action.  The nested main loops of item_query_exists and item_move only   *)
(* wait for a store reply; the reply is read from the store's state at the  *)
(* time of the call.  SpecMove runs item_move one reply at a time, with     *)
(* replies that may report an error.                                        *)
(*                                                                          *)
(* TrackerCrawler, TrackerMonitor and the store are not part of the file:   *)
(* the crawler is the environment that answers tracker_crawler_start and    *)
(* later reports "finished" with a queue of found files; the store is the   *)
(* set of URIs it holds a resource for.  The "progress" property and the    *)
(* totals it is computed from are kept in SpecProgress only; the "status"   *)
(* property, the timer, the other statistics and the commits are not        *)
(* modelled.                                                                *)
(*                                                                          *)
(* Spec is the whole system.  The properties are checked under              *)
(* specifications that let the environment do less: SpecEvents and          *)
(* SpecDrain (the drain of the queues, with any extractor and with a        *)
(* well-behaved one), SpecNotify (notifies for files not in the pool),      *)
(* SpecRemove and SpecRemoveQueued (root removal during the drain), SpecRun *)
(* (a started miner, crawls, a well-behaved extractor), SpecPause and       *)
(* SpecResume (pause and resume), SpecStop (stop), SpecDeletedInFlight      *)
(* (a deletion during an extraction), SpecMove (the move of a directory     *)
(* tree), SpecDiscovery (moves from sources the monitor does not watch),    *)
(* SpecProgress (the progress written during a crawl), SpecCrawl (the       *)
(* crawler's check-directory calls and the marks they leave), SpecRoots     *)
(* (nested roots added and removed) and SpecFailStart (a crawler that       *)
(* refuses roots).                                                          *)
(*                                                                          *)
(* Two smaller programs of the repository are modelled next to the miner,   *)
(* each in a variable of its own that the miner's actions leave alone:      *)
(* the forwarding functions of TrackerDataProvider                          *)
(* (src/src/libtracker-miner/tracker-data-provider.c, SpecProvider) and     *)
(* the start-up and shutdown of the store daemon                            *)
(* (src/src/tracker-store/tracker-main.c, SpecDaemon).                      *)
(***************************************************************************)
EXTENDS Integers, Sequences, FiniteSets, Bags, TLC

(***************************************************************************)
(* Bound of the model: the environment adds no item (a monitor event, a     *)
(* directory to crawl, a found file, a repeated notify) while this many are *)
(* queued or in the pool.                                                   *)
(***************************************************************************)
MaxLoad == 2

\* the values given to the "process-pool-limit" property, at construction
\* and later
PoolLimits == {1, 2}

\* the crawler reports no file or directory once this many have been found
\* since the last "finished"
MaxFound == 2

\* the values given to tracker_miner_fs_set_throttle
Throttles == {-1, 0, 1, 2}

(***************************************************************************)
(* Files.  A URI is the sequence of its path components.                    *)
(***************************************************************************)
DirA   == << "a" >>
FileA1 == << "a", "f" >>
FileB  == << "b" >>
Files  == {DirA, FileA1, FileB}
\* the files the monitor reports as directories
Dirs   == {DirA}
\* the files given to tracker_miner_fs_remove_directory
Roots  == {DirA, FileB}
\* the (source, destination) pairs of the monitor's move events
Moves  == { << FileB, FileA1 >>, << FileA1, FileB >> }
\* the NULL GFile pointer
NoFile == << >>

\* g_file_equal
g_file_equal(a, b) == a = b

\* g_file_has_prefix (file, prefix): file lies strictly below prefix
g_file_has_prefix(file, prefix) ==
    /\ Len(file) > Len(prefix)
    /\ SubSeq(file, 1, Len(prefix)) = prefix

\* the container (parent directory) of a URI
Container(f) == SubSeq(f, 1, Len(f) - 1)

(***************************************************************************)
(* enum { QUEUE_NONE, QUEUE_CREATED, QUEUE_UPDATED, QUEUE_DELETED,          *)
(*        QUEUE_MOVED }                                                     *)
(***************************************************************************)
QUEUE_NONE    == "QUEUE_NONE"
QUEUE_CREATED == "QUEUE_CREATED"
QUEUE_UPDATED == "QUEUE_UPDATED"
QUEUE_DELETED == "QUEUE_DELETED"
QUEUE_MOVED   == "QUEUE_MOVED"

VARIABLES
    items_created,          \* GQueue of GFile
    items_updated,          \* GQueue of GFile
    items_deleted,          \* GQueue of GFile
    items_moved,            \* GQueue of ItemMovedData {file, source_file}
    directories,            \* GList of DirectoryData {file, recurse}
    current_directory,      \* DirectoryData being crawled, or NoDirectory
    crawl_directories_id,   \* source id of crawl_directories_cb, 0 = none
    item_queues_handler_id, \* source id of item_queue_handlers_cb, 0 = none
    processing_pool,        \* GList of ProcessData {file, cancellable}
    pool_limit,
    been_started,
    is_paused,
    is_crawling,
    store,                  \* URIs the store holds a resource for
    updates,                \* bag of batch updates sent and not yet answered
    owed,                   \* per file: accepted extractions not yet notified
    last,                   \* what the last callback was and what it emitted
    crashed,                \* the process died of a double free
    throttle,               \* the "throttle" property: 0 (full speed) or 1
    removed,                \* roots given to remove_directory, not added again
    move_data,              \* RecursiveMoveData of item_move and the child
                            \* lookups the store has not answered
    total_directories_found,
    total_files_found,
    progress,               \* the "progress" property, a fraction << n, d >>
    quark_ignore_file,      \* the found GFiles that carry the ignore mark
    monitor,                \* the directories TrackerMonitor watches
    provider,               \* a TrackerDataProvider and the last call made on it
    daemon                  \* the store daemon: main and its signal handler

vars == << items_created, items_updated, items_deleted, items_moved,
           directories, current_directory, crawl_directories_id,
           item_queues_handler_id, processing_pool, pool_limit,
           been_started, is_paused, is_crawling, store, updates, owed, last,
           crashed, throttle, removed, move_data, total_directories_found,
           total_files_found, progress, quark_ignore_file, monitor, provider,
           daemon >>

\* current_directory == NULL
NoDirectory == [file |-> NoFile, recurse |-> FALSE]

\* "last" after a callback that emits no signal
Did(op, file) ==
    [op |-> op, file |-> file, queue |-> QUEUE_NONE,
     locked |-> FALSE, process_file |-> NoFile, declined |-> FALSE,
     is_directory |-> FALSE, is_source_monitored |-> FALSE,
     should_process |-> FALSE, written |-> << >>,
     should_check |-> FALSE, should_change_index |-> FALSE,
     add_monitor |-> FALSE, return_val |-> FALSE, found |-> << >>,
     source_file |-> NoFile,
     finished |-> FALSE,
     critical |-> FALSE, error |-> "none", double_free |-> FALSE,
     data |-> 0]

\* "last" after a callback no property looks at
Quiet == Did("other", NoFile)

RECURSIVE Sum(_, _)
\* the sum of f over the set S
Sum(f, S) ==
    IF S = {} THEN 0
    ELSE LET x == CHOOSE y \in S : TRUE IN f[x] + Sum(f, S \ {x})

\* what waits in the queues and in the list of directories
Waiting ==
    Len(items_created) + Len(items_updated) + Len(items_deleted)
      + Len(items_moved) + Len(directories)

\* what is queued, to crawl, in the pool, sent to the store or owed
Load ==
    Len(items_created) + Len(items_updated) + Len(items_deleted)
      + Len(items_moved) + Len(directories) + Len(processing_pool)
      + BagCardinality(updates) + Sum(owed, Files)

(***************************************************************************)
(* Helpers on GList / GQueue.                                               *)
(***************************************************************************)
RECURSIVE SeqFilter(_, _)
\* the elements of s that are in the set keep, in their order
SeqFilter(s, keep) ==
    IF s = << >> THEN << >>
    ELSE IF Head(s) \in keep
         THEN << Head(s) >> \o SeqFilter(Tail(s), keep)
         ELSE SeqFilter(Tail(s), keep)

\* ids of the ProcessData blocks something still points to
IdsInUse ==
    { processing_pool[i].id : i \in 1..Len(processing_pool) }
      \cup { u.data : u \in BagToSet(updates) }

\* g_slice_new0 (ProcessData): a block nothing points to
NewId ==
    CHOOSE n \in 1..(Cardinality(IdsInUse) + 1) : n \notin IdsInUse

\* process_data_new
process_data_new(file, cancellable) ==
    [id |-> NewId, file |-> file, cancellable |-> cancellable]

\* process_data_find: position of the first pool entry for file, 0 if none
process_data_find(pool, file) ==
    IF \E i \in 1..Len(pool) : g_file_equal(pool[i].file, file)
    THEN CHOOSE i \in 1..Len(pool) :
            /\ g_file_equal(pool[i].file, file)
            /\ \A j \in 1..(i - 1) : ~g_file_equal(pool[j].file, file)
    ELSE 0

\* g_list_remove (pool, data): drops the entry at position i (0: not found)
g_list_remove(pool, i) ==
    IF i = 0 THEN pool
    ELSE SubSeq(pool, 1, i - 1) \o SubSeq(pool, i + 1, Len(pool))

\* position in the pool of the ProcessData block id, 0 if it is not there
PoolIndex(pool, id) ==
    IF \E i \in 1..Len(pool) : pool[i].id = id
    THEN CHOOSE i \in 1..Len(pool) : pool[i].id = id
    ELSE 0

\* a set-up of the queue handler that does not look at is_paused
SetUpWhilePaused(id, paused, pool, limit) ==
    IF id # 0 THEN id
    ELSE IF Len(pool) >= limit THEN 0
    ELSE 1

(***************************************************************************)
(* item_queue_handlers_set_up: the new value of item_queues_handler_id.     *)
(***************************************************************************)
item_queue_handlers_set_up(id, paused, pool, limit) ==
    IF id # 0 THEN id
    ELSE IF paused THEN 0
    ELSE IF Len(pool) >= limit THEN 0
    ELSE 1

(***************************************************************************)
(* crawl_directories_start: the new value of crawl_directories_id.          *)
(***************************************************************************)
\* a crawl_directories_start that does not wait for the miner to be started
StartsUnstarted(id, started) == IF id # 0 THEN id ELSE 1

crawl_directories_start(id, started) ==
    IF id # 0 THEN id
    ELSE IF ~started THEN 0
    ELSE 1

\* the data provider and the store daemon when they are not looked at
NoProvider == [ iface |-> {} ]
NoDaemon == [ pc |-> "none" ]

\* no item_move is waiting for child lookups
NoMove ==
    [ main_loop |-> FALSE, level |-> 0, sparql |-> << >>,
      source_uri |-> NoFile, uri |-> NoFile, queries |-> EmptyBag,
      stored |-> {} ]

\* the state after construction, for a store that holds one of stores
\* the miner after tracker_miner_fs_init
InitMiner(stores) ==
    /\ items_created = << >>
    /\ items_updated = << >>
    /\ items_deleted = << >>
    /\ items_moved = << >>
    /\ directories = << >>
    /\ current_directory = NoDirectory
    /\ crawl_directories_id = 0
    /\ item_queues_handler_id = 0
    /\ processing_pool = << >>
    /\ pool_limit \in PoolLimits
    /\ been_started = FALSE
    /\ is_paused = FALSE
    /\ is_crawling = FALSE
    /\ store \in stores
    /\ updates = EmptyBag
    /\ owed = [f \in Files |-> 0]
    /\ last = Quiet
    /\ crashed = FALSE
    /\ throttle = 0
    /\ removed = {}
    /\ move_data = NoMove
    /\ total_directories_found = 0
    /\ total_files_found = 0
    /\ progress = << 0, 1 >>
    /\ quark_ignore_file = {}
    /\ monitor = {}

InitWith(stores) ==
    /\ InitMiner(stores)
    /\ provider = NoProvider
    /\ daemon = NoDaemon

Init == InitWith({{}, Files})

(***************************************************************************)
(* Monitor callbacks.  is_directory is what the monitor reports for the     *)
(* file; should_process is the answer of the check-file / check-directory   *)
(* signal (should_check_file).                                              *)
(***************************************************************************)
monitor_item_created_cb ==
    /\ ~crashed
    /\ Load < MaxLoad
    /\ \E file \in Files, should_process \in BOOLEAN :
        LET is_directory == file \in Dirs IN
        /\ IF should_process /\ is_directory
           THEN \* tracker_miner_fs_add_directory (fs, file, TRUE)
                /\ directories' = Append(directories, [file |-> file, recurse |-> TRUE])
                /\ crawl_directories_id' =
                      crawl_directories_start(crawl_directories_id, been_started)
                /\ removed' = removed \ {file}
                /\ UNCHANGED << items_created, item_queues_handler_id >>
           ELSE IF should_process
           THEN /\ items_created' = Append(items_created, file)
                /\ item_queues_handler_id' =
                      item_queue_handlers_set_up(item_queues_handler_id, is_paused,
                                                 processing_pool, pool_limit)
                /\ UNCHANGED << directories, crawl_directories_id, removed >>
           ELSE UNCHANGED << items_created, item_queues_handler_id, directories,
                             crawl_directories_id, removed >>
    /\ last' = Quiet
    /\ UNCHANGED << items_updated, items_deleted, items_moved, current_directory,
                    processing_pool, pool_limit, been_started, is_paused,
                    is_crawling, store, updates, owed, crashed >>
    /\ UNCHANGED << throttle, move_data, total_directories_found,
                    total_files_found, progress >>
    /\ UNCHANGED << quark_ignore_file, monitor, provider, daemon >>

monitor_item_updated_cb ==
    /\ ~crashed
    /\ Load < MaxLoad
    /\ \E file \in Files, should_process \in BOOLEAN :
        /\ IF should_process
           THEN /\ items_updated' = Append(items_updated, file)
                /\ item_queues_handler_id' =
                      item_queue_handlers_set_up(item_queues_handler_id, is_paused,
                                                 processing_pool, pool_limit)
           ELSE UNCHANGED << items_updated, item_queues_handler_id >>
    /\ last' = Quiet
    /\ UNCHANGED << items_created, items_deleted, items_moved, directories,
                    current_directory, crawl_directories_id, processing_pool,
                    pool_limit, been_started, is_paused, is_crawling, store,
                    updates, owed, crashed, removed >>
    /\ UNCHANGED << throttle, move_data, total_directories_found,
                    total_files_found, progress >>
    /\ UNCHANGED << quark_ignore_file, monitor, provider, daemon >>

\* room: the bound of the model lets the monitor report one more event
MonitorItemDeleted(room) ==
    /\ ~crashed
    /\ room
    /\ \E file \in Files, should_process \in BOOLEAN :
        /\ IF should_process
           THEN /\ items_deleted' = Append(items_deleted, file)
                /\ item_queues_handler_id' =
                      item_queue_handlers_set_up(item_queues_handler_id, is_paused,
                                                 processing_pool, pool_limit)
           ELSE UNCHANGED << items_deleted, item_queues_handler_id >>
    /\ last' = Quiet
    /\ UNCHANGED << items_created, items_updated, items_moved, directories,
                    current_directory, crawl_directories_id, processing_pool,
                    pool_limit, been_started, is_paused, is_crawling, store,
                    updates, owed, crashed, removed >>
    /\ UNCHANGED << throttle, move_data, total_directories_found,
                    total_files_found, progress >>
    /\ UNCHANGED << quark_ignore_file, monitor, provider, daemon >>

monitor_item_deleted_cb == MonitorItemDeleted(Load < MaxLoad)

\* an item_query_exists that finds nothing in the store
NothingStored(file) == FALSE

\* item_query_exists
item_query_exists(file) == file \in store

\* source_stored is item_query_exists (fs, file); should_process_other is
\* should_check_file (fs, other_file, is_directory); noted: whether "last"
\* keeps what the monitor reported
MonitorItemMoved(moves, noted) ==
    /\ ~crashed
    /\ Load < MaxLoad
    /\ \E move \in moves,
          is_source_monitored \in BOOLEAN, should_process_other \in BOOLEAN :
        LET file == move[1]
            other_file == move[2]
            is_directory == file \in Dirs
            source_stored == item_query_exists(file)
            add_dir == \/ ~is_source_monitored /\ is_directory
                       \/ is_source_monitored /\ ~source_stored
                            /\ should_process_other /\ is_directory
            push_created == is_source_monitored /\ ~source_stored
                              /\ should_process_other /\ ~is_directory
            push_deleted == is_source_monitored /\ source_stored
                              /\ ~should_process_other
            push_moved == is_source_monitored /\ source_stored
                              /\ should_process_other
            push == push_created \/ push_deleted \/ push_moved
        IN
        /\ directories' =
              IF add_dir
              THEN Append(directories, [file |-> other_file, recurse |-> TRUE])
              ELSE directories
        /\ crawl_directories_id' =
              IF add_dir
              THEN crawl_directories_start(crawl_directories_id, been_started)
              ELSE crawl_directories_id
        /\ removed' = IF add_dir THEN removed \ {other_file} ELSE removed
        /\ items_created' =
              IF push_created THEN Append(items_created, other_file) ELSE items_created
        /\ items_deleted' =
              IF push_deleted THEN Append(items_deleted, file) ELSE items_deleted
        /\ items_moved' =
              IF push_moved
              THEN Append(items_moved, [file |-> other_file, source_file |-> file])
              ELSE items_moved
        /\ item_queues_handler_id' =
              IF push
              THEN item_queue_handlers_set_up(item_queues_handler_id, is_paused,
                                              processing_pool, pool_limit)
              ELSE item_queues_handler_id
        /\ last' = IF noted
                   THEN [ Did("monitor_item_moved_cb", other_file)
                            EXCEPT !.source_file = file,
                                   !.is_directory = is_directory,
                                   !.is_source_monitored = is_source_monitored,
                                   !.should_process = should_process_other ]
                   ELSE Quiet
    /\ UNCHANGED << items_updated, current_directory, processing_pool, pool_limit,
                    been_started, is_paused, is_crawling, store, updates, owed,
                    crashed >>
    /\ UNCHANGED << throttle, move_data, total_directories_found,
                    total_files_found, progress >>
    /\ UNCHANGED << quark_ignore_file, monitor, provider, daemon >>

monitor_item_moved_cb == MonitorItemMoved(Moves, FALSE)

(***************************************************************************)
(* Public calls.                                                            *)
(***************************************************************************)
\* dirs: the directories the caller adds
AddDirectory(dirs) ==
    /\ ~crashed
    /\ Load < MaxLoad
    /\ \E file \in dirs :
        /\ directories' = Append(directories, [file |-> file, recurse |-> FALSE])
        /\ removed' = removed \ {file}
    /\ crawl_directories_id' =
          crawl_directories_start(crawl_directories_id, been_started)
    /\ last' = Quiet
    /\ UNCHANGED << items_created, items_updated, items_deleted, items_moved,
                    current_directory, item_queues_handler_id, processing_pool,
                    pool_limit, been_started, is_paused, is_crawling, store,
                    updates, owed, crashed >>
    /\ UNCHANGED << throttle, move_data, total_directories_found,
                    total_files_found, progress >>
    /\ UNCHANGED << quark_ignore_file, monitor, provider, daemon >>

tracker_miner_fs_add_directory == AddDirectory(Dirs)

\* check_files_removal (queue, parent): the queue it leaves
check_files_removal(queue, parent) ==
    SelectSeq(queue, LAMBDA f : ~(g_file_equal(f, parent) \/ g_file_has_prefix(f, parent)))

\* the loop of tracker_miner_fs_remove_directory over priv->directories
RemoveDirectories(dirs, file) ==
    SelectSeq(dirs, LAMBDA d : ~(g_file_equal(file, d.file) \/ g_file_has_prefix(file, d.file)))

\* the loop of tracker_miner_fs_remove_directory over the processing pool;
\* g_cancellable_cancel (NULL) does nothing
CancelPool(pool, file) ==
    [ i \in 1..Len(pool) |->
        IF (g_file_equal(pool[i].file, file) \/ g_file_has_prefix(pool[i].file, file))
           /\ pool[i].cancellable # "none"
        THEN [pool[i] EXCEPT !.cancellable = "cancelled"]
        ELSE pool[i] ]

\* the queues of found files a crawl of root can hand over: files at or
\* below root in the crawler's order, each directory with or without the
\* "tracker-ignore-file" mark
FoundQueues(root) ==
    LET all == SeqFilter(<< DirA, FileA1, FileB >>,
                         { f \in Files : f = root \/ g_file_has_prefix(f, root) })
    IN  { [ i \in 1..Len(s) |-> [file |-> s[i], ignore |-> s[i] \in marked] ] :
            s \in { SeqFilter(all, keep) : keep \in SUBSET Files },
            marked \in SUBSET Dirs }

\* a crawler_finished_cb that queues every found file, marked or not
FoundAll(found) == [ i \in 1..Len(found) |-> found[i].file ]

\* the loop of crawler_finished_cb over found: what it appends to items_created
FoundToCreate(found) ==
    LET kept == SelectSeq(found, LAMBDA e : ~e.ignore)
    IN  [ i \in 1..Len(kept) |-> kept[i].file ]

(***************************************************************************)
(* tracker_miner_fs_remove_directory.  tracker_crawler_stop ends the crawl  *)
(* early; the crawler reports "finished" with what it found so far either   *)
(* from inside tracker_crawler_stop (emitted: crawler_finished_cb runs      *)
(* before the rest of the call) or later from the main loop.                *)
(***************************************************************************)
\* roots: the files the caller removes; noted: whether "last" keeps the
\* value returned
RemoveDirectory(roots, noted) ==
    /\ ~crashed
    /\ \E file \in roots, emitted \in BOOLEAN :
        LET stops == /\ current_directory # NoDirectory
                     /\ \/ g_file_equal(file, current_directory.file)
                        \/ g_file_has_prefix(file, current_directory.file)
        IN
        /\ emitted => (stops /\ is_crawling)
        /\ \E found \in (IF emitted THEN FoundQueues(current_directory.file)
                                     ELSE { << >> }) :
            /\ Load + Len(FoundToCreate(found)) <= MaxLoad
            /\ items_created' =
                  check_files_removal(items_created \o FoundToCreate(found), file)
        /\ is_crawling' = (is_crawling /\ ~emitted)
        /\ current_directory' =
              IF emitted THEN NoDirectory ELSE current_directory
        /\ crawl_directories_id' =
              IF emitted
              THEN crawl_directories_start(crawl_directories_id, been_started)
              ELSE crawl_directories_id
        /\ directories' = RemoveDirectories(directories, file)
        /\ items_updated' = check_files_removal(items_updated, file)
        /\ processing_pool' = CancelPool(processing_pool, file)
        /\ removed' = removed \cup {file}
        /\ last' = [Did("tracker_miner_fs_remove_directory", file) EXCEPT
                      !.return_val =
                          /\ noted
                          /\ \/ stops
                             \/ RemoveDirectories(directories, file)
                                  # directories]
    /\ UNCHANGED << items_deleted, items_moved, item_queues_handler_id,
                    pool_limit, been_started, is_paused, store, updates, owed,
                    crashed >>
    /\ UNCHANGED << throttle, move_data, total_directories_found,
                    total_files_found, progress >>
    /\ UNCHANGED << quark_ignore_file, monitor, provider, daemon >>

tracker_miner_fs_remove_directory == RemoveDirectory(Roots, FALSE)

\* fs_set_property (PROP_POOL_LIMIT)
fs_set_property_pool_limit ==
    /\ ~crashed
    /\ \E value \in PoolLimits : pool_limit' = value
    /\ last' = Quiet
    /\ UNCHANGED << items_created, items_updated, items_deleted, items_moved,
                    directories, current_directory, crawl_directories_id,
                    item_queues_handler_id, processing_pool, been_started,
                    is_paused, is_crawling, store, updates, owed,
                    crashed, removed >>
    /\ UNCHANGED << throttle, move_data, total_directories_found,
                    total_files_found, progress >>
    /\ UNCHANGED << quark_ignore_file, monitor, provider, daemon >>

\* CLAMP (x, low, high)
CLAMP(x, low, high) == IF x > high THEN high ELSE IF x < low THEN low ELSE x

\* a set_throttle that installs the source whether or not it was installed
ArmsOnThrottle(id) == 1

\* "if (id != 0) { g_source_remove (id); id = _tracker_idle_add (...); }"
throttle_reinstall(id) == IF id # 0 THEN 1 ELSE id

\* tracker_miner_fs_set_throttle: a source that is installed is removed and
\* installed again with the new interval; one that is not stays absent
tracker_miner_fs_set_throttle ==
    /\ ~crashed
    /\ \E value \in Throttles :
        LET clamped == CLAMP(value, 0, 1) IN
        /\ throttle # clamped
        /\ throttle' = clamped
    /\ item_queues_handler_id' = throttle_reinstall(item_queues_handler_id)
    /\ crawl_directories_id' = throttle_reinstall(crawl_directories_id)
    /\ last' = Did("tracker_miner_fs_set_throttle", NoFile)
    /\ UNCHANGED << items_created, items_updated, items_deleted, items_moved,
                    directories, current_directory, processing_pool, pool_limit,
                    been_started, is_paused, is_crawling, store, updates, owed,
                    crashed, removed, move_data, total_directories_found,
                    total_files_found, progress >>
    /\ UNCHANGED << quark_ignore_file, monitor, provider, daemon >>

(***************************************************************************)
(* TrackerMiner vfuncs.                                                     *)
(***************************************************************************)
\* noted: whether the model keeps the value of the "progress" property
MinerStarted(noted) ==
    /\ ~crashed
    /\ ~been_started
    /\ been_started' = TRUE
    /\ crawl_directories_id' = crawl_directories_start(crawl_directories_id, TRUE)
    /\ progress' = IF noted THEN << 0, 1 >> ELSE progress
    /\ last' = Quiet
    /\ UNCHANGED << items_created, items_updated, items_deleted, items_moved,
                    directories, current_directory, item_queues_handler_id,
                    processing_pool, pool_limit, is_paused, is_crawling, store,
                    updates, owed, crashed, removed >>
    /\ UNCHANGED << throttle, move_data, total_directories_found,
                    total_files_found >>
    /\ UNCHANGED << quark_ignore_file, monitor, provider, daemon >>

miner_started == MinerStarted(FALSE)

\* miner_stopped only sets the "progress" and "status" properties
MinerStopped(noted) ==
    /\ ~crashed
    /\ been_started
    /\ progress' = IF noted THEN << 1, 1 >> ELSE progress
    /\ last' = Did("miner_stopped", NoFile)
    /\ UNCHANGED << items_created, items_updated, items_deleted, items_moved,
                    directories, current_directory, crawl_directories_id,
                    item_queues_handler_id, processing_pool, pool_limit,
                    been_started, is_paused, is_crawling, store, updates, owed,
                    crashed, removed >>
    /\ UNCHANGED << throttle, move_data, total_directories_found,
                    total_files_found >>
    /\ UNCHANGED << quark_ignore_file, monitor, provider, daemon >>

miner_stopped == MinerStopped(FALSE)

miner_paused ==
    /\ ~crashed
    /\ ~is_paused
    /\ is_paused' = TRUE
    /\ item_queues_handler_id' = 0
    /\ last' = Did("miner_paused", NoFile)
    /\ UNCHANGED << items_created, items_updated, items_deleted, items_moved,
                    directories, current_directory, crawl_directories_id,
                    processing_pool, pool_limit, been_started, is_crawling,
                    store, updates, owed, crashed, removed >>
    /\ UNCHANGED << throttle, move_data, total_directories_found,
                    total_files_found, progress >>
    /\ UNCHANGED << quark_ignore_file, monitor, provider, daemon >>

miner_resumed ==
    /\ ~crashed
    /\ is_paused
    /\ is_paused' = FALSE
    /\ item_queues_handler_id' =
          IF \/ Len(items_deleted) > 0
             \/ Len(items_created) > 0
             \/ Len(items_updated) > 0
             \/ Len(items_moved) > 0
          THEN item_queue_handlers_set_up(item_queues_handler_id, FALSE,
                                          processing_pool, pool_limit)
          ELSE item_queues_handler_id
    /\ last' = Did("miner_resumed", NoFile)
    /\ UNCHANGED << items_created, items_updated, items_deleted, items_moved,
                    directories, current_directory, crawl_directories_id,
                    processing_pool, pool_limit, been_started, is_crawling,
                    store, updates, owed, crashed, removed >>
    /\ UNCHANGED << throttle, move_data, total_directories_found,
                    total_files_found, progress >>
    /\ UNCHANGED << quark_ignore_file, monitor, provider, daemon >>

\* a hook that returns FALSE: the main loop removes the source
SourceRemoved(id) == 0

\* a hook that returns TRUE: the main loop keeps the source installed
SourceKept(id) == id

(***************************************************************************)
(* The crawl-directories hook.  started is what tracker_crawler_start       *)
(* returns; noted: whether "last" keeps the root taken and the value the    *)
(* hook returns, which is TRUE when the crawler did not start.              *)
(***************************************************************************)
CrawlDirectories(noted) ==
    /\ ~crashed
    /\ crawl_directories_id # 0
    /\ \E started \in BOOLEAN :
        IF current_directory # NoDirectory
        THEN \* "One directory is already being processed, bailing out"
             /\ started
             /\ crawl_directories_id' = 0
             /\ last' = IF noted THEN Did("crawl_directories_cb", NoFile)
                                 ELSE Quiet
             /\ UNCHANGED << directories, current_directory, is_crawling,
                             item_queues_handler_id >>
        ELSE IF directories = << >>
        THEN /\ started
             /\ item_queues_handler_id' =
                   item_queue_handlers_set_up(item_queues_handler_id, is_paused,
                                              processing_pool, pool_limit)
             /\ crawl_directories_id' = 0
             /\ last' = IF noted THEN Did("crawl_directories_cb", NoFile)
                                 ELSE Quiet
             /\ UNCHANGED << directories, current_directory, is_crawling >>
        ELSE /\ directories' = Tail(directories)
             /\ IF started
                THEN /\ current_directory' = Head(directories)
                     /\ is_crawling' = TRUE
                     /\ crawl_directories_id' = 0
                ELSE \* the directory could not be processed: try the next
                     /\ current_directory' = NoDirectory
                     /\ crawl_directories_id' =
                           SourceKept(crawl_directories_id)
                     /\ UNCHANGED is_crawling
             /\ last' = IF noted
                        THEN [Did("crawl_directories_cb", Head(directories).file)
                                EXCEPT !.return_val = ~started]
                        ELSE Quiet
             /\ UNCHANGED item_queues_handler_id
    /\ UNCHANGED << items_created, items_updated, items_deleted, items_moved,
                    processing_pool, pool_limit, been_started, is_paused, store,
                    updates, owed, crashed, removed >>
    /\ UNCHANGED << throttle, move_data, total_directories_found,
                    total_files_found, progress >>
    /\ UNCHANGED << quark_ignore_file, monitor, provider, daemon >>

\* the found queues of a crawl of root whose directories carry the ignore
\* mark exactly if crawler_check_directory_cb has set it on them
FoundMarked(root, marks) ==
    { found \in FoundQueues(root) :
        \A i \in 1..Len(found) : found[i].ignore = (found[i].file \in marks) }

crawl_directories_cb == CrawlDirectories(FALSE)

\* counted: whether the crawler's directories_found and files_found are the
\* numbers of directories and files in found, or 0
\* queues: the found queues the crawler can hand over
\* noted: whether the model keeps the found queue and the marks on its files
CrawlerFinishedWith(counted, queues, noted) ==
    /\ ~crashed
    /\ is_crawling
    /\ \E found \in queues :
        LET directories_found ==
                IF counted
                THEN Len(SelectSeq(found, LAMBDA e : e.file \in Dirs)) ELSE 0
            files_found ==
                IF counted
                THEN Len(SelectSeq(found, LAMBDA e : e.file \notin Dirs)) ELSE 0
        IN
        /\ Load + Len(FoundToCreate(found)) <= MaxLoad
        /\ total_directories_found + total_files_found + Len(found) <= MaxFound
        /\ items_created' = items_created \o FoundToCreate(found)
        /\ total_directories_found' = total_directories_found + directories_found
        /\ total_files_found' = total_files_found + files_found
        /\ last' = IF noted
                   THEN [Did("crawler_finished_cb", current_directory.file)
                            EXCEPT !.found = found]
                   ELSE Quiet
    /\ is_crawling' = FALSE
    /\ current_directory' = NoDirectory
    /\ crawl_directories_id' =
          crawl_directories_start(crawl_directories_id, been_started)
    \* the crawler drops the found queue after the signal: the files that
    \* were not queued go, and their marks with them
    /\ quark_ignore_file' = IF noted THEN {} ELSE quark_ignore_file
    /\ UNCHANGED << items_updated, items_deleted, items_moved, directories,
                    item_queues_handler_id, processing_pool, pool_limit,
                    been_started, is_paused, store, updates, owed, crashed,
                    removed >>
    /\ UNCHANGED << throttle, move_data, progress >>
    /\ UNCHANGED << monitor, provider, daemon >>

CrawlerFinished(counted) ==
    CrawlerFinishedWith(counted, FoundQueues(current_directory.file), FALSE)

crawler_finished_cb == CrawlerFinished(FALSE)

(***************************************************************************)
(* crawler_check_directory_cb, called by the crawler for a directory it     *)
(* meets during a crawl.  should_check is what the "check-directory" signal *)
(* returns, should_change_index what should_change_index_for_file finds in  *)
(* the store, add_monitor what the "monitor-directory" signal returns.      *)
(***************************************************************************)
crawler_check_directory_cb ==
    /\ ~crashed
    /\ is_crawling
    /\ \E file \in Dirs, should_check \in BOOLEAN,
          should_change_index \in BOOLEAN, add_monitor \in BOOLEAN :
        /\ g_file_equal(file, current_directory.file)
           \/ g_file_has_prefix(file, current_directory.file)
        /\ quark_ignore_file' =
              IF ~should_change_index
              THEN quark_ignore_file \cup {file}
              ELSE quark_ignore_file
        /\ monitor' = IF add_monitor THEN monitor \cup {file} ELSE monitor
        /\ last' = [Did("crawler_check_directory_cb", file) EXCEPT
                      !.should_check = should_check,
                      !.should_change_index = should_change_index,
                      !.add_monitor = add_monitor,
                      !.return_val = should_check]
    /\ UNCHANGED << items_created, items_updated, items_deleted, items_moved,
                    directories, current_directory, crawl_directories_id,
                    item_queues_handler_id, processing_pool, pool_limit,
                    been_started, is_paused, is_crawling, store, updates, owed,
                    crashed, removed >>
    /\ UNCHANGED << throttle, move_data, total_directories_found,
                    total_files_found, progress >>
    /\ UNCHANGED << provider, daemon >>

\* the crawler hands over a found queue whose marks are those set during
\* the crawl
crawler_finished_cb_marked ==
    CrawlerFinishedWith(FALSE,
                        FoundMarked(current_directory.file, quark_ignore_file),
                        TRUE)

(***************************************************************************)
(* The store.  A batch update is kept with the ProcessData it was given as  *)
(* user_data; the store applies it when it answers.                         *)
(***************************************************************************)
Update(data, kind, file, rewrites) ==
    [data |-> data, kind |-> kind, file |-> file, rewrites |-> rewrites]

\* tracker_miner_execute_batch_update
Send(bag, u) == bag (+) SetToBag({u})

\* "SELECT ?child WHERE { ?child nfo:belongsToContainer <source_uri> }"
Children(source_uri) == { c \in store : c # NoFile /\ Container(c) = source_uri }

RECURSIVE item_update_uri_recursively(_, _, _, _)
\* item_update_uri_recursively with item_update_uri_recursively_cb: the
\* "<source_uri> tracker:uri <uri>" statements added to the move batch
item_update_uri_recursively(top_source, top_uri, source_uri, uri) ==
    { << source_uri, uri >> } \cup
    UNION { item_update_uri_recursively(
                top_source, top_uri, c,
                top_uri \o SubSeq(c, Len(top_source) + 1, Len(c))) :
            c \in Children(source_uri) }

\* what the store holds after a batch update that did not fail
ApplyUpdate(st, u) ==
    CASE u.kind = "add" ->
            \* DROP GRAPH <uri> and the builder's statements
            st \cup { u.file }
      [] u.kind = "remove" ->
            \* the resource, and every ?u whose container starts with "<uri>/"
            { x \in st : x # u.file /\ ~g_file_has_prefix(Container(x), u.file) }
      [] u.kind = "move" ->
            { x \in st : \A r \in u.rewrites : r[1] # x }
              \cup { r[2] : r \in { q \in u.rewrites : q[1] \in st } }

(***************************************************************************)
(* The functions the queue handler dispatches to.  Each gives the pool and  *)
(* the updates it leaves, its return value, the file process-file was       *)
(* emitted for and whether the extractor now owes a notify for it.          *)
(*   processing: the value returned by the ::process-file handlers          *)
(*   sync:       whether the handler called tracker_miner_fs_notify_file    *)
(*               before returning ("none", "ok", "error")                   *)
(***************************************************************************)
\* an item_add_or_update that leaves the entry of a declined file in the pool
KeepDeclined(file, processing, sync) ==
    LET data  == process_data_new(file, "active")
        pool1 == << data >> \o processing_pool
        hit   == process_data_find(pool1, file)
        pool2 == IF sync = "error" THEN g_list_remove(pool1, hit) ELSE pool1
        upd2  == IF sync = "ok"
                 THEN Send(updates, Update(pool1[hit].id, "add", file, {}))
                 ELSE updates
    IN  [ pool |-> pool2,
          updates |-> upd2,
          retval |-> (~processing \/ Len(pool2) < pool_limit),
          process_file |-> file,
          declined |-> ~processing,
          accepted |-> (processing /\ sync = "none") ]

item_add_or_update(file, processing, sync) ==
    LET data  == process_data_new(file, "active")
        pool1 == << data >> \o processing_pool
        \* tracker_miner_fs_notify_file from inside the handler
        hit   == process_data_find(pool1, file)
        pool2 == IF sync = "error" THEN g_list_remove(pool1, hit) ELSE pool1
        upd2  == IF sync = "ok"
                 THEN Send(updates, Update(pool1[hit].id, "add", file, {}))
                 ELSE updates
        \* if (!processing): re-fetch data and drop it
        pool3 == IF ~processing
                 THEN g_list_remove(pool2, process_data_find(pool2, file))
                 ELSE pool2
    IN  [ pool |-> pool3,
          updates |-> upd2,
          retval |-> (~processing \/ Len(pool3) < pool_limit),
          process_file |-> file,
          declined |-> ~processing,
          accepted |-> (processing /\ sync = "none") ]

item_remove(file) ==
    IF ~item_query_exists(file)
    THEN [ pool |-> processing_pool, updates |-> updates, retval |-> TRUE,
           process_file |-> NoFile, declined |-> FALSE,
               accepted |-> FALSE ]
    ELSE LET data == process_data_new(file, "none")
         IN  [ pool |-> << data >> \o processing_pool,
               updates |-> Send(updates, Update(data.id, "remove", file, {})),
               retval |-> FALSE,
               process_file |-> NoFile, declined |-> FALSE,
               accepted |-> FALSE ]

\* an item_move that takes a source the store does not know for a
\* destination that has gone away
UnknownSourceIgnored(file, source_file, file_info, processing, sync) ==
    IF ~item_query_exists(source_file)
    THEN item_remove(source_file)
    ELSE IF ~file_info
    THEN item_remove(source_file)
    ELSE LET data == process_data_new(file, "none")
             sparql == item_update_uri_recursively(source_file, file,
                                                   source_file, file)
         IN  [ pool |-> << data >> \o processing_pool,
               updates |-> Send(updates, Update(data.id, "move", file, sparql)),
               retval |-> TRUE,
               process_file |-> NoFile, declined |-> FALSE,
               accepted |-> FALSE ]

\* file_info: whether g_file_query_info found the destination
item_move(file, source_file, file_info, processing, sync) ==
    IF ~item_query_exists(source_file)
    THEN item_add_or_update(file, processing, sync)
    ELSE IF ~file_info
    THEN item_remove(source_file)
    ELSE LET data == process_data_new(file, "none")
             sparql == item_update_uri_recursively(source_file, file,
                                                   source_file, file)
         IN  [ pool |-> << data >> \o processing_pool,
               updates |-> Send(updates, Update(data.id, "move", file, sparql)),
               retval |-> TRUE,
               process_file |-> NoFile, declined |-> FALSE,
               accepted |-> FALSE ]

\* a queue handler that looks at the created queue before the deleted queue
CreatedFirst(deleted, created, updated, moved) ==
    IF created # << >> THEN QUEUE_CREATED
    ELSE IF deleted # << >> THEN QUEUE_DELETED
    ELSE IF updated # << >> THEN QUEUE_UPDATED
    ELSE IF moved # << >> THEN QUEUE_MOVED
    ELSE QUEUE_NONE

\* item_queue_get_next_file: the queue the next item is popped from
item_queue_get_next_file(deleted, created, updated, moved) ==
    IF deleted # << >> THEN QUEUE_DELETED
    ELSE IF created # << >> THEN QUEUE_CREATED
    ELSE IF updated # << >> THEN QUEUE_UPDATED
    ELSE IF moved # << >> THEN QUEUE_MOVED
    ELSE QUEUE_NONE

(***************************************************************************)
(* item_queue_handlers_cb: one run of the queue handler.                    *)
(*   locked:    tracker_file_is_locked (file)                               *)
(*   file_info: g_file_query_info found the destination of a move           *)
(*   extractor: the (processing, sync) answers the ::process-file handler   *)
(*              may give                                                    *)
(*   locks:     the answers tracker_file_is_locked may give                 *)
(*   clock:     the answers of (time_now.tv_sec - time_last.tv_sec) >= 1    *)
(*   noted:     whether the model keeps the value of the "progress"         *)
(*              property                                                    *)
(***************************************************************************)
\* an extractor that keeps to the contract of ::process-file: it calls
\* tracker_miner_fs_notify_file only for a file it accepts
GoodExtractor == { << TRUE, "none" >>, << TRUE, "ok" >>, << TRUE, "error" >>,
                   << FALSE, "none" >> }

\* any extractor, also one that notifies a file and then declines it
AnyExtractor == BOOLEAN \X {"none", "ok", "error"}

\* item_queue_get_progress: the gdouble n / d as the pair << n, d >>
item_queue_get_progress(deleted, created, updated, moved, dirs, files) ==
    LET items_to_process == Len(deleted) + Len(created) + Len(updated) + Len(moved)
        items_total == dirs + files
    IN  IF items_to_process = 0 /\ items_total > 0
        THEN << 0, 1 >>
        ELSE IF items_total = 0 \/ items_to_process > items_total
        THEN << 1, 1 >>
        ELSE << items_total - items_to_process, items_total >>

QueueHandler(extractor, locks, clock, noted) ==
    /\ ~crashed
    /\ item_queues_handler_id # 0
    /\ \E locked \in locks, file_info \in BOOLEAN, answer \in extractor,
          second \in clock :
        LET processing == answer[1]
            sync == answer[2]
            queue == item_queue_get_next_file(items_deleted, items_created,
                                              items_updated, items_moved)
            file == CASE queue = QUEUE_DELETED -> Head(items_deleted)
                      [] queue = QUEUE_CREATED -> Head(items_created)
                      [] queue = QUEUE_UPDATED -> Head(items_updated)
                      [] queue = QUEUE_MOVED   -> Head(items_moved).file
                      [] OTHER -> NoFile
            source_file == IF queue = QUEUE_MOVED
                           THEN Head(items_moved).source_file ELSE NoFile
            idle == [ pool |-> processing_pool, updates |-> updates,
                      retval |-> FALSE, process_file |-> NoFile,
                      declined |-> FALSE, accepted |-> FALSE ]
            r == CASE queue = QUEUE_MOVED ->
                        item_move(file, source_file, file_info, processing, sync)
                   [] queue = QUEUE_DELETED -> item_remove(file)
                   [] queue \in {QUEUE_CREATED, QUEUE_UPDATED} ->
                        item_add_or_update(file, processing, sync)
                   [] OTHER -> idle
            \* process_stop
            stop == /\ queue = QUEUE_NONE
                    /\ ~is_crawling
                    /\ processing_pool = << >>
            \* "Update progress, but don't spam it", after the pop
            written ==
                ( IF second
                  THEN << item_queue_get_progress(
                              items_deleted', items_created', items_updated',
                              items_moved', total_directories_found,
                              total_files_found) >>
                  ELSE << >> )
                \o ( IF stop THEN << << 1, 1 >> >> ELSE << >> )
        IN
        \* inputs that are not read are not varied
        /\ queue = QUEUE_NONE => ~locked
        /\ (locked \/ queue # QUEUE_MOVED \/ ~item_query_exists(source_file))
              => file_info
        /\ (locked \/ r.process_file = NoFile)
              => answer = CHOOSE a \in extractor : TRUE
        /\ locked => ~second
        /\ items_deleted' =
              IF queue = QUEUE_DELETED THEN Tail(items_deleted) ELSE items_deleted
        /\ items_created' =
              IF queue = QUEUE_CREATED THEN Tail(items_created) ELSE items_created
        /\ items_updated' =
              IF queue = QUEUE_UPDATED THEN Tail(items_updated) ELSE items_updated
        /\ items_moved' =
              IF queue = QUEUE_MOVED THEN Tail(items_moved) ELSE items_moved
        /\ IF locked
           THEN \* "File is locked, ignore any updates on it": return TRUE
                /\ UNCHANGED << processing_pool, updates, owed,
                                item_queues_handler_id, progress,
                                total_directories_found, total_files_found >>
                /\ last' = [ Did("item_queue_handlers_cb", file)
                               EXCEPT !.queue = queue, !.locked = TRUE ]
           ELSE /\ processing_pool' = r.pool
                /\ updates' = r.updates
                /\ owed' = IF r.accepted
                           THEN [owed EXCEPT ![r.process_file] = @ + 1]
                           ELSE owed
                /\ item_queues_handler_id' =
                      IF r.retval THEN item_queues_handler_id ELSE 0
                /\ progress' = IF noted /\ written # << >>
                               THEN written[Len(written)]
                               ELSE progress
                /\ total_directories_found' =
                      IF stop THEN 0 ELSE total_directories_found
                /\ total_files_found' = IF stop THEN 0 ELSE total_files_found
                /\ last' = [ Did("item_queue_handlers_cb", file)
                               EXCEPT !.queue = queue,
                                      !.process_file = r.process_file,
                                      !.declined = r.declined,
                                      !.written = IF noted THEN written ELSE << >>,
                                      !.finished = stop ]
    /\ UNCHANGED << directories, current_directory, crawl_directories_id,
                    pool_limit, been_started, is_paused, is_crawling, store,
                    crashed, removed >>
    /\ UNCHANGED << throttle, move_data >>
    /\ UNCHANGED << quark_ignore_file, monitor, provider, daemon >>

item_queue_handlers_cb == QueueHandler(AnyExtractor, BOOLEAN, {FALSE}, FALSE)

(***************************************************************************)
(* tracker_miner_fs_notify_file (fs, file, error) with                      *)
(* item_add_or_update_cb, called by the extractor from the main loop.       *)
(***************************************************************************)
\* an item_add_or_update_cb that sends the update whatever the error
SendsOnError(data, file, error) ==
    [ pool |-> processing_pool,
      updates |-> Send(updates, Update(processing_pool[data].id, "add", file, {})),
      handler_id |-> item_queues_handler_id,
      critical |-> FALSE ]

\* item_add_or_update_cb (fs, data, error), data being the position of the
\* entry in the pool: the pool, the updates and the handler id it leaves
item_add_or_update_cb(data, file, error) ==
    IF error # "none"
    THEN LET pool == g_list_remove(processing_pool, data)
         IN  [ pool |-> pool,
               updates |-> updates,
               handler_id |->
                  item_queue_handlers_set_up(item_queues_handler_id, is_paused,
                                             pool, pool_limit),
               critical |-> FALSE ]
    ELSE [ pool |-> processing_pool,
           updates |-> Send(updates,
                            Update(processing_pool[data].id, "add", file, {})),
           handler_id |-> item_queues_handler_id,
           critical |-> FALSE ]

\* a tracker_miner_fs_notify_file that treats a file it does not find in
\* the pool as one whose extraction failed
UnknownFileSetsUp(file, error) ==
    LET data == process_data_find(processing_pool, file) IN
    IF data = 0
    THEN [ pool |-> processing_pool, updates |-> updates,
           handler_id |->
              item_queue_handlers_set_up(item_queues_handler_id, is_paused,
                                         processing_pool, pool_limit),
           critical |-> TRUE ]
    ELSE item_add_or_update_cb(data, file, error)

\* the body of tracker_miner_fs_notify_file: what it leaves, and whether it
\* logged "that file was not in the processing queue"
NotifyResult(file, error) ==
    LET data == process_data_find(processing_pool, file) IN
    IF data = 0
    THEN [ pool |-> processing_pool, updates |-> updates,
           handler_id |-> item_queues_handler_id, critical |-> TRUE ]
    ELSE item_add_or_update_cb(data, file, error)

NotifyFile(file, error) ==
    LET r == NotifyResult(file, error) IN
    /\ ~crashed
    /\ processing_pool' = r.pool
    /\ updates' = r.updates
    /\ item_queues_handler_id' = r.handler_id
    /\ owed' = IF owed[file] > 0 THEN [owed EXCEPT ![file] = @ - 1] ELSE owed
    /\ last' = [ Did("tracker_miner_fs_notify_file", file)
                   EXCEPT !.critical = r.critical, !.error = error ]
    /\ UNCHANGED << items_created, items_updated, items_deleted, items_moved,
                    directories, current_directory, crawl_directories_id,
                    pool_limit, been_started, is_paused, is_crawling, store,
                    crashed, removed >>
    /\ UNCHANGED << throttle, move_data, total_directories_found,
                    total_files_found, progress >>
    /\ UNCHANGED << quark_ignore_file, monitor, provider, daemon >>

\* the notify the extractor owes for a file it accepted
tracker_miner_fs_notify_file ==
    \E file \in Files, error \in {"none", "NotFound", "Other"} :
        /\ owed[file] > 0
        /\ NotifyFile(file, error)

\* a notify for a file the extractor was not given, or notified already
notify_file_again ==
    \E file \in Files, error \in {"none", "NotFound", "Other"} :
        /\ owed[file] = 0
        /\ BagCardinality(updates) < MaxLoad
        /\ NotifyFile(file, error)

(***************************************************************************)
(* sparql_update_cb: the store answers one batch update.  data is freed     *)
(* whether or not it is still in the pool; freeing it a second time is      *)
(* undefined: the process goes on, or dies.                                 *)
(***************************************************************************)
\* a sparql_update_cb that keeps the entry when the update failed
PoolKeptOnError(data, error) ==
    IF error THEN processing_pool ELSE g_list_remove(processing_pool, data)

\* the pool sparql_update_cb leaves: g_list_remove, with or without an error
sparql_update_pool(data, error) == g_list_remove(processing_pool, data)

SparqlUpdate(errors) ==
    /\ ~crashed
    /\ \E u \in BagToSet(updates), error \in errors, dies \in BOOLEAN :
        LET data == PoolIndex(processing_pool, u.data) IN
        /\ dies => data = 0
        /\ updates' = updates (-) SetToBag({u})
        /\ store' = IF error THEN store ELSE ApplyUpdate(store, u)
        /\ processing_pool' = sparql_update_pool(data, error)
        /\ crashed' = dies
        /\ item_queues_handler_id' =
              IF dies THEN item_queues_handler_id
              ELSE item_queue_handlers_set_up(item_queues_handler_id, is_paused,
                                              processing_pool', pool_limit)
        /\ last' = [ Did("sparql_update_cb", NoFile)
                       EXCEPT !.double_free = (data = 0), !.data = u.data,
                              !.error = IF error THEN "StoreError" ELSE "none" ]
    /\ UNCHANGED << items_created, items_updated, items_deleted, items_moved,
                    directories, current_directory, crawl_directories_id,
                    pool_limit, been_started, is_paused, is_crawling, owed,
                    removed >>
    /\ UNCHANGED << throttle, move_data, total_directories_found,
                    total_files_found, progress >>
    /\ UNCHANGED << quark_ignore_file, monitor, provider, daemon >>

\* the store answers with or without an error
sparql_update_cb == SparqlUpdate(BOOLEAN)

\* the store answers without an error
sparql_update_cb_ok == SparqlUpdate({FALSE})

\* the queue handler with an extractor that keeps to the contract
item_queue_handlers_cb_good == QueueHandler(GoodExtractor, BOOLEAN, {FALSE}, FALSE)

\* the same, when no file is locked
item_queue_handlers_cb_unlocked == QueueHandler(GoodExtractor, {FALSE}, {FALSE}, FALSE)

(***************************************************************************)
(* item_move, one store reply at a time.  item_move fills a                 *)
(* RecursiveMoveData and runs a nested main loop; every reply to a          *)
(* "SELECT ?child" query is one call of item_update_uri_recursively_cb, and *)
(* the rest of item_move runs when the callback that brings level to 0      *)
(* quits the loop.  The nested loop dispatches the other callbacks in       *)
(* between; the queue handler, being dispatched itself, is not run again.   *)
(*   move_data.queries: the source URIs of the queries not yet answered     *)
(*   move_data.sparql:  the "<source> tracker:uri <uri>" statements so far, *)
(*                      kept here after the batch has been sent             *)
(*   move_data.stored:  what the store held when item_move began            *)
(***************************************************************************)
\* g_str_has_prefix on URIs
g_str_has_prefix(str, prefix) ==
    /\ Len(str) >= Len(prefix)
    /\ SubSeq(str, 1, Len(prefix)) = prefix

\* item_update_uri_recursively (fs, move_data, source_uri, uri): one more
\* statement and one more query
item_update_uri_query(md, source_uri, uri) ==
    [ md EXCEPT !.level = @ + 1,
                !.sparql = Append(@, << source_uri, uri >>),
                !.queries = @ (+) SetToBag({source_uri}) ]

RECURSIVE item_update_uri_children(_, _)
\* the loop of item_update_uri_recursively_cb over the rows of a reply
item_update_uri_children(md, rows) ==
    IF rows = {} THEN md
    ELSE LET child_source_uri == CHOOSE c \in rows : TRUE
             child_uri == md.uri \o SubSeq(child_source_uri,
                                           Len(md.source_uri) + 1,
                                           Len(child_source_uri))
             rest == rows \ {child_source_uri}
         IN  IF ~g_str_has_prefix(child_source_uri, md.source_uri)
             THEN \* "Child URI does not start with parent URI"
                  item_update_uri_children(md, rest)
             ELSE item_update_uri_children(
                      item_update_uri_query(md, child_source_uri, child_uri),
                      rest)

\* the statements and queries a reply adds: none if the query failed
item_update_uri_reply(md, error, rows) ==
    IF error THEN md ELSE item_update_uri_children(md, rows)

\* the queue handler pops a Moved item whose source the store knows and
\* whose destination exists: item_move up to g_main_loop_run
item_move_run ==
    /\ ~crashed
    /\ item_queues_handler_id # 0
    /\ ~move_data.main_loop
    /\ item_queue_get_next_file(items_deleted, items_created,
                                items_updated, items_moved) = QUEUE_MOVED
    /\ LET file == Head(items_moved).file
           source_file == Head(items_moved).source_file
       IN  /\ item_query_exists(source_file)
           /\ move_data' =
                 item_update_uri_query(
                     [ main_loop |-> TRUE, level |-> 0, sparql |-> << >>,
                       source_uri |-> source_file, uri |-> file,
                       queries |-> EmptyBag, stored |-> store ],
                     source_file, file)
           /\ last' = [ Did("item_move", file) EXCEPT !.queue = QUEUE_MOVED ]
    /\ items_moved' = Tail(items_moved)
    /\ UNCHANGED << items_created, items_updated, items_deleted, directories,
                    current_directory, crawl_directories_id,
                    item_queues_handler_id, processing_pool, pool_limit,
                    been_started, is_paused, is_crawling, store, updates, owed,
                    crashed, throttle, removed, total_directories_found,
                    total_files_found, progress >>
    /\ UNCHANGED << quark_ignore_file, monitor, provider, daemon >>

\* the store answers one child query; the reply that leaves no query
\* outstanding quits the nested loop, and item_move sends the batch and
\* returns TRUE to the queue handler
ItemUpdateUriReply(errors) ==
    /\ ~crashed
    /\ move_data.main_loop
    /\ \E source_uri \in BagToSet(move_data.queries), error \in errors :
        LET answered == [ move_data EXCEPT
                            !.queries = @ (-) SetToBag({source_uri}) ]
            md == item_update_uri_reply(answered, error, Children(source_uri))
            level == md.level - 1
            data == process_data_new(md.uri, "none")
        IN
        \* g_assert (data->level >= 0)
        /\ crashed' = (level < 0)
        /\ IF level = 0
           THEN /\ move_data' = [ md EXCEPT !.level = level, !.main_loop = FALSE ]
                /\ processing_pool' = << data >> \o processing_pool
                /\ updates' = Send(updates,
                                   Update(data.id, "move", md.uri,
                                          { md.sparql[i] : i \in DOMAIN md.sparql }))
                /\ last' = [ Did("item_queue_handlers_cb", md.uri)
                               EXCEPT !.queue = QUEUE_MOVED,
                                      !.critical = error ]
           ELSE /\ move_data' = [ md EXCEPT !.level = level ]
                /\ last' = [ Did("item_update_uri_recursively_cb", source_uri)
                               EXCEPT !.critical = error ]
                /\ UNCHANGED << processing_pool, updates >>
    /\ UNCHANGED << items_created, items_updated, items_deleted, items_moved,
                    directories, current_directory, crawl_directories_id,
                    item_queues_handler_id, pool_limit, been_started,
                    is_paused, is_crawling, store, owed, throttle, removed,
                    total_directories_found, total_files_found, progress >>
    /\ UNCHANGED << quark_ignore_file, monitor, provider, daemon >>

item_update_uri_recursively_cb == ItemUpdateUriReply(BOOLEAN)

(***************************************************************************)
(* The whole system: every callback and public call, in any order.          *)
(***************************************************************************)
Next ==
    \/ monitor_item_created_cb
    \/ monitor_item_updated_cb
    \/ monitor_item_deleted_cb
    \/ monitor_item_moved_cb
    \/ tracker_miner_fs_add_directory
    \/ tracker_miner_fs_remove_directory
    \/ fs_set_property_pool_limit
    \/ tracker_miner_fs_set_throttle
    \/ miner_started
    \/ miner_stopped
    \/ miner_paused
    \/ miner_resumed
    \/ crawl_directories_cb
    \/ crawler_check_directory_cb
    \/ crawler_finished_cb
    \/ item_queue_handlers_cb
    \/ tracker_miner_fs_notify_file
    \/ notify_file_again
    \/ sparql_update_cb

Spec == Init /\ [][Next]_vars

(***************************************************************************)
(* The drain of the queues: monitor events, pool-limit changes, the queue   *)
(* handler with any extractor, notifies (owed or not) and store replies.    *)
(* No root is crawled or removed and the miner is never paused.             *)
(***************************************************************************)
NextEvents ==
    \/ monitor_item_created_cb
    \/ monitor_item_updated_cb
    \/ monitor_item_deleted_cb
    \/ monitor_item_moved_cb
    \/ fs_set_property_pool_limit
    \/ item_queue_handlers_cb
    \/ tracker_miner_fs_notify_file
    \/ notify_file_again
    \/ sparql_update_cb

SpecEvents == Init /\ [][NextEvents]_vars

(***************************************************************************)
(* The drain of the queues with a well-behaved extractor and a fixed pool   *)
(* limit: monitor events, the queue handler, the owed notifies and the      *)
(* store's replies.                                                         *)
(***************************************************************************)
NextDrain ==
    \/ monitor_item_created_cb
    \/ monitor_item_updated_cb
    \/ monitor_item_deleted_cb
    \/ monitor_item_moved_cb
    \/ item_queue_handlers_cb_good
    \/ tracker_miner_fs_notify_file
    \/ sparql_update_cb

SpecDrain == Init /\ [][NextDrain]_vars

(***************************************************************************)
(* Root removal: tracker_miner_fs_remove_directory called at any point of   *)
(* the drain of the queues.                                                 *)
(***************************************************************************)
NextRemove ==
    \/ monitor_item_created_cb
    \/ monitor_item_updated_cb
    \/ monitor_item_deleted_cb
    \/ monitor_item_moved_cb
    \/ tracker_miner_fs_remove_directory
    \/ item_queue_handlers_cb
    \/ tracker_miner_fs_notify_file
    \/ sparql_update_cb

SpecRemove == Init /\ [][NextRemove]_vars

(***************************************************************************)
(* Root removal with nothing new arriving afterwards: as NextRemove, but the *)
(* monitor reports events only until the first root is removed, so that     *)
(* whatever is processed after the call was queued or in flight at the call. *)
(***************************************************************************)
NextRemoveQueued ==
    \/ removed = {} /\ monitor_item_created_cb
    \/ removed = {} /\ monitor_item_updated_cb
    \/ removed = {} /\ monitor_item_deleted_cb
    \/ removed = {} /\ monitor_item_moved_cb
    \/ tracker_miner_fs_remove_directory
    \/ item_queue_handlers_cb
    \/ tracker_miner_fs_notify_file
    \/ sparql_update_cb

SpecRemoveQueued == Init /\ [][NextRemoveQueued]_vars

(***************************************************************************)
(* A run without pause and with a well-behaved extractor: the miner is      *)
(* started, roots are added and crawled, the monitor reports events, every  *)
(* accepted file is notified once and the store answers.                    *)
(***************************************************************************)
NextRun ==
    \/ miner_started
    \/ tracker_miner_fs_add_directory
    \/ crawl_directories_cb
    \/ crawler_finished_cb
    \/ monitor_item_created_cb
    \/ monitor_item_updated_cb
    \/ monitor_item_deleted_cb
    \/ monitor_item_moved_cb
    \/ item_queue_handlers_cb_good
    \/ tracker_miner_fs_notify_file
    \/ sparql_update_cb

SpecRun == Init /\ [][NextRun]_vars

(***************************************************************************)
(* Pause and resume at any point of a run: the miner is started, paused and *)
(* resumed, the throttle is changed, roots found by the monitor are         *)
(* crawled, the monitor reports events, the extractor keeps to the contract *)
(* and the store answers.                                                   *)
(***************************************************************************)
NextPause ==
    \/ miner_started
    \/ miner_paused
    \/ miner_resumed
    \/ tracker_miner_fs_set_throttle
    \/ crawl_directories_cb
    \/ crawler_finished_cb
    \/ monitor_item_created_cb
    \/ monitor_item_updated_cb
    \/ monitor_item_deleted_cb
    \/ monitor_item_moved_cb
    \/ item_queue_handlers_cb_good
    \/ tracker_miner_fs_notify_file
    \/ sparql_update_cb

SpecPause == Init /\ [][NextPause]_vars

(***************************************************************************)
(* Notifies nobody asked for: the drain of the queues with an extractor     *)
(* that answers process-file by the contract but also calls                 *)
(* tracker_miner_fs_notify_file for files that are not in the pool: files   *)
(* it was never given, files it declined and files whose processing has     *)
(* completed.                                                               *)
(***************************************************************************)
notify_file_unknown ==
    \E file \in Files, error \in {"none", "NotFound", "Other"} :
        /\ process_data_find(processing_pool, file) = 0
        /\ NotifyFile(file, error)

NextNotify ==
    \/ monitor_item_created_cb
    \/ monitor_item_updated_cb
    \/ monitor_item_deleted_cb
    \/ item_queue_handlers_cb_good
    \/ tracker_miner_fs_notify_file
    \/ notify_file_unknown
    \/ sparql_update_cb

SpecNotify == Init /\ [][NextNotify]_vars

(***************************************************************************)
(* Stop: a started miner is stopped at any point of a run with crawls,      *)
(* monitor events, a well-behaved extractor and the store's replies.        *)
(***************************************************************************)
NextStop ==
    \/ miner_started
    \/ miner_stopped
    \/ crawl_directories_cb
    \/ crawler_finished_cb
    \/ monitor_item_created_cb
    \/ monitor_item_updated_cb
    \/ monitor_item_deleted_cb
    \/ monitor_item_moved_cb
    \/ item_queue_handlers_cb_good
    \/ tracker_miner_fs_notify_file
    \/ sparql_update_cb

SpecStop == Init /\ [][NextStop]_vars

(***************************************************************************)
(* A deletion during an extraction: the monitor reports Updated(u) once, to *)
(* a miner at rest; the handler dispatches it; the monitor reports          *)
(* Deleted(u) while the pool holds the entry of u; the extractor notifies,  *)
(* in any order with the store's replies, which carry no error; no file is  *)
(* locked.  The main                                                        *)
(* loop runs the handler while it is installed, the extractor notifies      *)
(* every file it accepted and the store answers every update.               *)
(***************************************************************************)
AtRest ==
    /\ Load = 0
    /\ last = Quiet

\* the pool holds an extraction (an entry with a cancellable) of u
InFlight(u) ==
    \E i \in 1..Len(processing_pool) :
        /\ processing_pool[i].file = u
        /\ processing_pool[i].cancellable # "none"

\* Deleted(u) for a file u whose extraction is in flight
monitor_item_deleted_in_flight ==
    /\ MonitorItemDeleted(Waiting < MaxLoad)
    /\ items_deleted' # items_deleted
    /\ InFlight(items_deleted'[Len(items_deleted')])

NextDeletedInFlight ==
    \/ AtRest /\ monitor_item_updated_cb /\ items_updated' # << >>
    \/ monitor_item_deleted_in_flight
    \/ item_queue_handlers_cb_unlocked
    \/ tracker_miner_fs_notify_file
    \/ sparql_update_cb_ok

SpecDeletedInFlight ==
    /\ Init
    /\ [][NextDeletedInFlight]_vars
    /\ WF_vars(item_queue_handlers_cb_unlocked)
    /\ WF_vars(tracker_miner_fs_notify_file)
    /\ WF_vars(sparql_update_cb_ok)

\* how often the URI u is queued; a move is queued for its source and for
\* its destination
Queued(u) ==
    Cardinality({ i \in 1..Len(items_deleted) : items_deleted[i] = u })
      + Cardinality({ i \in 1..Len(items_created) : items_created[i] = u })
      + Cardinality({ i \in 1..Len(items_updated) : items_updated[i] = u })
      + Cardinality({ i \in 1..Len(items_moved) :
                        items_moved[i].file = u \/ items_moved[i].source_file = u })

\* no URI is queued or in the pool more than once
NoDuplicates ==
    \A u \in Files :
        Queued(u) + Cardinality({ i \in 1..Len(processing_pool) :
                                    processing_pool[i].file = u }) <= 1

(***************************************************************************)
(* Resume: the miner is started, paused and resumed any number of times.    *)
(* The monitor reports events only while the miner is paused; no event and  *)
(* no crawl brings a URI that is queued or in the pool, so that after the   *)
(* last resume the work is what was queued or in flight when the miner was  *)
(* paused or what arrived during the pause, each URI once.  The main loop   *)
(* runs every installed source,                                             *)
(* the extractor notifies every file it accepted, the store answers every   *)
(* update, the crawler finishes every crawl, and a miner that is paused is  *)
(* resumed.                                                                 *)
(***************************************************************************)
\* a crawl that finds no URI that is queued or in the pool
crawler_finished_cb_new == crawler_finished_cb /\ NoDuplicates'

NextResume ==
    \/ miner_started
    \/ miner_paused
    \/ miner_resumed
    \/ crawl_directories_cb
    \/ crawler_finished_cb_new
    \/ is_paused /\ monitor_item_created_cb /\ NoDuplicates'
    \/ is_paused /\ monitor_item_updated_cb /\ NoDuplicates'
    \/ is_paused /\ monitor_item_deleted_cb /\ NoDuplicates'
    \/ item_queue_handlers_cb_good
    \/ tracker_miner_fs_notify_file
    \/ sparql_update_cb

SpecResume ==
    /\ Init
    /\ [][NextResume]_vars
    /\ WF_vars(miner_started)
    /\ WF_vars(miner_resumed)
    /\ WF_vars(crawl_directories_cb)
    /\ WF_vars(crawler_finished_cb_new)
    /\ WF_vars(item_queue_handlers_cb_good)
    /\ WF_vars(tracker_miner_fs_notify_file)
    /\ WF_vars(sparql_update_cb)

(***************************************************************************)
(* SpecMove: the monitor reports that the directory a was moved to b, for a *)
(* store that holds a tree of resources below a.  The queue handler runs    *)
(* item_move one store reply at a time; the destination of a move exists    *)
(* and no file is locked.                                                   *)
(***************************************************************************)
DirAD  == << "a", "d" >>
FileADG == << "a", "d", "g" >>

\* the stores at the start: every resource is stored with its containers
MoveStores ==
    { st \in SUBSET {DirA, FileA1, DirAD, FileADG, FileB} :
        \A x \in st : Len(x) > 1 => Container(x) \in st }

\* the (source, destination) pairs of the monitor's directory moves
DirMoves == { << DirA, FileB >> }

InitMove == InitWith(MoveStores)

\* a move event that puts a Moved item in the queue
monitor_item_moved_dir ==
    /\ MonitorItemMoved(DirMoves, FALSE)
    /\ Len(items_moved') > Len(items_moved)

\* the next item is one that item_move_run takes
MoveRuns ==
    /\ item_queue_get_next_file(items_deleted, items_created,
                                items_updated, items_moved) = QUEUE_MOVED
    /\ item_query_exists(Head(items_moved).source_file)

\* the queue handler for every other item
item_queue_handlers_cb_other ==
    /\ ~move_data.main_loop
    /\ ~MoveRuns
    /\ item_queue_handlers_cb_unlocked

NextMove ==
    \/ monitor_item_moved_dir
    \/ monitor_item_created_cb
    \/ item_move_run
    \/ item_update_uri_recursively_cb
    \/ item_queue_handlers_cb_other
    \/ tracker_miner_fs_notify_file
    \/ sparql_update_cb

SpecMove == InitMove /\ [][NextMove]_vars

(***************************************************************************)
(* SpecDiscovery: the monitor reports moves of files and of a directory,    *)
(* from sources it watches and from sources it does not, and the queues are *)
(* drained.                                                                 *)
(***************************************************************************)
monitor_item_moved_noted == MonitorItemMoved(Moves \cup DirMoves, TRUE)

NextDiscovery ==
    \/ monitor_item_moved_noted
    \/ monitor_item_created_cb
    \/ item_queue_handlers_cb_good
    \/ tracker_miner_fs_notify_file
    \/ sparql_update_cb

SpecDiscovery == Init /\ [][NextDiscovery]_vars

(***************************************************************************)
(* SpecProgress: a started miner crawls, the crawler counts what it finds,  *)
(* the monitor reports new files, and the queue handler writes              *)
(* the "progress" property whenever a second has passed.  No file is        *)
(* locked, the extractor answers from inside ::process-file and the store   *)
(* reports no error.                                                        *)
(***************************************************************************)
\* an extractor that declines the file, or accepts it and calls
\* tracker_miner_fs_notify_file before it returns
SyncExtractor == { << TRUE, "ok" >>, << TRUE, "error" >>, << FALSE, "none" >> }

miner_started_noted == MinerStarted(TRUE)

crawler_finished_cb_counted == CrawlerFinished(TRUE)

item_queue_handlers_cb_timed ==
    QueueHandler(SyncExtractor, {FALSE}, BOOLEAN, TRUE)

NextProgress ==
    \/ miner_started_noted
    \/ tracker_miner_fs_add_directory
    \/ crawl_directories_cb
    \/ crawler_finished_cb_counted
    \/ monitor_item_created_cb
    \/ item_queue_handlers_cb_timed
    \/ sparql_update_cb_ok

SpecProgress == Init /\ [][NextProgress]_vars

(***************************************************************************)
(* The crawl of a root seen from the inside: the crawler asks about the     *)
(* directories it meets and hands over a found queue whose files carry the  *)
(* marks set on them.                                                       *)
(***************************************************************************)
NextCrawl ==
    \/ miner_started
    \/ tracker_miner_fs_add_directory
    \/ crawl_directories_cb
    \/ crawler_check_directory_cb
    \/ crawler_finished_cb_marked
    \/ monitor_item_created_cb
    \/ item_queue_handlers_cb_good
    \/ tracker_miner_fs_notify_file
    \/ sparql_update_cb

SpecCrawl == Init /\ [][NextCrawl]_vars

(***************************************************************************)
(* Roots that lie inside one another are added and removed while the miner  *)
(* crawls.                                                                  *)
(***************************************************************************)
tracker_miner_fs_add_directory_nested == AddDirectory({DirA, DirAD})

tracker_miner_fs_remove_directory_nested ==
    RemoveDirectory({DirA, DirAD, FileB}, TRUE)

NextRoots ==
    \/ miner_started
    \/ tracker_miner_fs_add_directory_nested
    \/ tracker_miner_fs_remove_directory_nested
    \/ crawl_directories_cb
    \/ crawler_finished_cb
    \/ item_queue_handlers_cb_good
    \/ tracker_miner_fs_notify_file
    \/ sparql_update_cb

SpecRoots == Init /\ [][NextRoots]_vars

(***************************************************************************)
(* Roots are configured before the miner is started, and the crawler may    *)
(* refuse to start on any of them.  The hooks are main-loop sources and the *)
(* crawler, the extractor and the store answer, so each of these steps is   *)
(* taken if it stays possible.                                              *)
(***************************************************************************)
tracker_miner_fs_add_directory_early ==
    ~been_started /\ tracker_miner_fs_add_directory_nested

crawl_directories_cb_noted == CrawlDirectories(TRUE)

NextFailStart ==
    \/ tracker_miner_fs_add_directory_early
    \/ miner_started
    \/ crawl_directories_cb_noted
    \/ crawler_finished_cb_new
    \/ item_queue_handlers_cb_unlocked
    \/ tracker_miner_fs_notify_file
    \/ sparql_update_cb

SpecFailStart ==
    /\ Init
    /\ [][NextFailStart]_vars
    /\ WF_vars(crawl_directories_cb_noted)
    /\ WF_vars(crawler_finished_cb_new)
    /\ WF_vars(item_queue_handlers_cb_unlocked)
    /\ WF_vars(tracker_miner_fs_notify_file)
    /\ WF_vars(sparql_update_cb)

(***************************************************************************)
(* TrackerDataProvider (tracker-data-provider.c): the interface functions   *)
(* that forward a call to the implementation's vfunc.  provider.iface is    *)
(* the set of vfuncs the implementation provides; the other fields keep the *)
(* last call: its name, whether its GCancellable was cancelled, what the    *)
(* vfunc answered if it was called, how often it was called, and the value  *)
(* and the GError the caller got.                                           *)
(***************************************************************************)
ProviderOps ==
    { "begin", "end", "monitor_add", "monitor_remove", "monitor_move",
      "is_monitored", "monitor_count" }

\* the largest number a monitor_count vfunc answers
MaxWatches == 2

\* what the function returns when it fails by itself
FailureValue(op) ==
    IF op = "begin" THEN "NULL" ELSE IF op = "monitor_count" THEN 0 ELSE FALSE

\* what a vfunc can answer: a value, and the GError it sets
ImplResults(op) ==
    IF op = "begin"
    THEN { [value |-> "enumerator", error |-> "none"],
           [value |-> "NULL", error |-> "G_IO_ERROR_FAILED"] }
    ELSE IF op = "monitor_count"
    THEN { [value |-> n, error |-> "none"] : n \in 0..MaxWatches }
           \cup { [value |-> 0, error |-> "G_IO_ERROR_FAILED"] }
    ELSE { [value |-> TRUE, error |-> "none"],
           [value |-> FALSE, error |-> "none"],
           [value |-> FALSE, error |-> "G_IO_ERROR_FAILED"] }

NoImpl == [value |-> "none", error |-> "none"]

\* a function that forwards the call whether or not the token is cancelled
ForwardsCancelled(iface, op, cancelled, impl) ==
    IF op \notin iface
    THEN [ value |-> FailureValue(op), error |-> "G_IO_ERROR_NOT_SUPPORTED",
           calls |-> 0, impl |-> NoImpl ]
    ELSE [ value |-> impl.value, error |-> impl.error, calls |-> 1,
           impl |-> impl ]

\* the body shared by the interface functions: the cancellable, if the
\* function takes one, is looked at first, then the vfunc pointer; the
\* vfunc is called once and what it returns is returned
provider_forward(iface, op, cancelled, impl) ==
    IF cancelled
    THEN [ value |-> FailureValue(op), error |-> "G_IO_ERROR_CANCELLED",
           calls |-> 0, impl |-> NoImpl ]
    ELSE IF op \notin iface
    THEN [ value |-> FailureValue(op), error |-> "G_IO_ERROR_NOT_SUPPORTED",
           calls |-> 0, impl |-> NoImpl ]
    ELSE [ value |-> impl.value, error |-> impl.error, calls |-> 1,
           impl |-> impl ]

\* tokens: the states of the GCancellable the caller can pass, {FALSE} for
\* a function that takes none
ProviderCall(op, tokens) ==
    /\ \E cancelled \in tokens, impl \in ImplResults(op) :
        LET r == provider_forward(provider.iface, op, cancelled, impl) IN
        \* the answer of a vfunc that is not called is not varied
        /\ r.calls = 0 => impl = CHOOSE i \in ImplResults(op) : TRUE
        /\ provider' = [ iface |-> provider.iface, op |-> op,
                         cancelled |-> cancelled, impl |-> r.impl,
                         calls |-> r.calls, value |-> r.value,
                         error |-> r.error ]
    /\ UNCHANGED << items_created, items_updated, items_deleted, items_moved,
                    directories, current_directory, crawl_directories_id,
                    item_queues_handler_id, processing_pool, pool_limit,
                    been_started, is_paused, is_crawling, store, updates, owed,
                    last, crashed, removed >>
    /\ UNCHANGED << throttle, move_data, total_directories_found,
                    total_files_found, progress >>
    /\ UNCHANGED << quark_ignore_file, monitor, daemon >>

tracker_data_provider_begin == ProviderCall("begin", BOOLEAN)

tracker_data_provider_end == ProviderCall("end", BOOLEAN)

tracker_data_provider_monitor_add == ProviderCall("monitor_add", {FALSE})

tracker_data_provider_monitor_remove == ProviderCall("monitor_remove", {FALSE})

tracker_data_provider_monitor_move == ProviderCall("monitor_move", {FALSE})

tracker_data_provider_is_monitored == ProviderCall("is_monitored", {FALSE})

tracker_data_provider_monitor_count == ProviderCall("monitor_count", {FALSE})

\* an implementation provides any of the vfuncs; nothing has been called
InitProvider ==
    /\ InitMiner({{}})
    /\ pool_limit = 1
    /\ daemon = NoDaemon
    /\ \E iface \in SUBSET ProviderOps :
          provider = [ iface |-> iface, op |-> "none", cancelled |-> FALSE,
                       impl |-> NoImpl, calls |-> 0, value |-> "none",
                       error |-> "none" ]

NextProvider ==
    \/ tracker_data_provider_begin
    \/ tracker_data_provider_end
    \/ tracker_data_provider_monitor_add
    \/ tracker_data_provider_monitor_remove
    \/ tracker_data_provider_monitor_move
    \/ tracker_data_provider_is_monitored
    \/ tracker_data_provider_monitor_count

SpecProvider == InitProvider /\ [][NextProvider]_vars

(***************************************************************************)
(* The store daemon (tracker-store/tracker-main.c): main from the line      *)
(* after initialize_signal_handler, one step per statement that reads or    *)
(* writes what the signal handler reads or writes, or that can end the      *)
(* process, and signal_handler, which the kernel runs between any two of    *)
(* main's steps.  daemon.pc names the statement main executes next.         *)
(* g_main_loop_new creates a loop that is not running; g_main_loop_run      *)
(* marks it running and iterates until it is not; g_main_loop_quit marks it *)
(* not running.                                                             *)
(***************************************************************************)
\* the calls of main that return EXIT_FAILURE when they fail, and the
\* statement that follows each
MainFallible ==
    [ tracker_env_check_xdg_dirs    |-> "tracker_dbus_init",
      tracker_dbus_init             |-> "tracker_status_init",
      tracker_data_manager_init     |-> "tracker_get_runtime_level",
      tracker_get_runtime_level     |-> "initialize_databases",
      initialize_databases          |-> "check_shutdown",
      tracker_dbus_register_objects |-> "tracker_status_set_is_ready" ]

Signals == { "SIGTERM", "SIGINT", "SIGHUP" }

\* how many SIGHUPs are followed
MaxHup == 2

\* where the process has ended
Ended == { "EXIT_SUCCESS", "EXIT_FAILURE", "_exit" }

\* tracker_shutdown; private is set before the handler is installed
tracker_shutdown(d) ==
    [d EXCEPT !.is_ready = IF d.status_initialized THEN FALSE ELSE @,
              !.is_running = IF d.main_loop THEN FALSE ELSE @,
              !.shutdown = TRUE]

\* the frame of the daemon's steps: the miner and the provider are not there
DaemonOnly ==
    /\ UNCHANGED << items_created, items_updated, items_deleted, items_moved,
                    directories, current_directory, crawl_directories_id,
                    item_queues_handler_id, processing_pool, pool_limit,
                    been_started, is_paused, is_crawling, store, updates, owed,
                    last, crashed, removed >>
    /\ UNCHANGED << throttle, move_data, total_directories_found,
                    total_files_found, progress >>
    /\ UNCHANGED << quark_ignore_file, monitor, provider >>

\* signal_handler (signo)
signal_handler ==
    /\ daemon.pc \notin Ended
    /\ \E signo \in Signals :
        IF daemon.in_loop
        THEN \* "Die if we get re-entrant signals handler calls"
             daemon' = [daemon EXCEPT !.pc = "_exit"]
        ELSE IF signo \in { "SIGTERM", "SIGINT" }
        THEN daemon' = [tracker_shutdown(daemon) EXCEPT !.in_loop = TRUE,
                                                        !.signo = signo]
        ELSE \* "Received signal:%d->'%s'"
             /\ daemon.hups < MaxHup
             /\ daemon' = [daemon EXCEPT !.hups = @ + 1, !.signo = signo]
    /\ DaemonOnly

\* a call that ends main with EXIT_FAILURE when it fails
main_initialize ==
    /\ daemon.pc \in DOMAIN MainFallible
    /\ \E ok \in BOOLEAN :
        daemon' = [daemon EXCEPT
                     !.pc = IF ok THEN MainFallible[daemon.pc]
                                  ELSE "EXIT_FAILURE"]
    /\ DaemonOnly

\* tracker_status_init, among the calls between the two that can fail
main_status_init ==
    /\ daemon.pc = "tracker_status_init"
    /\ daemon' = [daemon EXCEPT !.status_initialized = TRUE,
                                !.pc = "tracker_data_manager_init"]
    /\ DaemonOnly

\* "if (private->shutdown) goto shutdown;"
main_check_shutdown ==
    /\ daemon.pc = "check_shutdown"
    /\ daemon' = [daemon EXCEPT
                     !.pc = IF daemon.shutdown THEN "shutdown"
                            ELSE "tracker_dbus_register_objects"]
    /\ DaemonOnly

\* tracker_status_set_is_ready (TRUE)
main_set_is_ready ==
    /\ daemon.pc = "tracker_status_set_is_ready"
    /\ daemon' = [daemon EXCEPT !.is_ready = TRUE, !.pc = "check_main_loop"]
    /\ DaemonOnly

\* "if (!private->shutdown) {"
main_check_main_loop ==
    /\ daemon.pc = "check_main_loop"
    /\ daemon' = [daemon EXCEPT
                     !.pc = IF daemon.shutdown THEN "shutdown"
                            ELSE "g_main_loop_new"]
    /\ DaemonOnly

\* "private->main_loop = g_main_loop_new (NULL, FALSE);"
main_loop_new ==
    /\ daemon.pc = "g_main_loop_new"
    /\ daemon' = [daemon EXCEPT !.main_loop = TRUE, !.is_running = FALSE,
                                !.pc = "g_main_loop_run"]
    /\ DaemonOnly

\* "g_main_loop_run (private->main_loop);": the loop is entered
main_loop_run ==
    /\ daemon.pc = "g_main_loop_run"
    /\ daemon' = [daemon EXCEPT !.is_running = TRUE, !.pc = "running"]
    /\ DaemonOnly

\* g_main_loop_run returns once the loop is not running
main_loop_returns ==
    /\ daemon.pc = "running"
    /\ ~daemon.is_running
    /\ daemon' = [daemon EXCEPT !.pc = "shutdown"]
    /\ DaemonOnly

\* the code after the shutdown label
main_shutdown ==
    /\ daemon.pc = "shutdown"
    /\ daemon' = [daemon EXCEPT !.pc = "EXIT_SUCCESS"]
    /\ DaemonOnly

\* main, right after initialize_signal_handler
InitDaemon ==
    /\ InitMiner({{}})
    /\ pool_limit = 1
    /\ provider = NoProvider
    /\ daemon = [ pc |-> "tracker_env_check_xdg_dirs", shutdown |-> FALSE,
                  main_loop |-> FALSE, is_running |-> FALSE,
                  status_initialized |-> FALSE, is_ready |-> FALSE,
                  in_loop |-> FALSE, hups |-> 0, signo |-> "none" ]

MainStep ==
    \/ main_initialize
    \/ main_status_init
    \/ main_check_shutdown
    \/ main_set_is_ready
    \/ main_check_main_loop
    \/ main_loop_new
    \/ main_loop_run
    \/ main_loop_returns
    \/ main_shutdown

NextDaemon ==
    \/ signal_handler
    \/ main_initialize
    \/ main_status_init
    \/ main_check_shutdown
    \/ main_set_is_ready
    \/ main_check_main_loop
    \/ main_loop_new
    \/ main_loop_run
    \/ main_loop_returns
    \/ main_shutdown

\* main is the process's thread: it takes its next step if it has one
SpecDaemon == InitDaemon /\ [][NextDaemon]_vars /\ WF_vars(MainStep)

(***************************************************************************)
(* Properties.                                                              *)
(***************************************************************************)
\* f is root or lies below root
AtOrUnder(f, root) == f = root \/ g_file_has_prefix(f, root)

\* the entries of the queue q that are not at or under root, in their order
Outside(q, root) == SelectSeq(q, LAMBDA f : ~AtOrUnder(f, root))

\* C1: in every reachable state the processing pool holds at most pool_limit
\* entries.
C1_PoolWithinLimit == Len(processing_pool) <= pool_limit

\* C2: in every reachable state every URI is queued at most once over the
\* four queues together.
C2_QueuedAtMostOnce == \A u \in Files : Queued(u) <= 1

\* the four queues in the order deleted, created, updated, moved
DrainOrder == << QUEUE_DELETED, QUEUE_CREATED, QUEUE_UPDATED, QUEUE_MOVED >>

\* the files queued in the queue named q, before and after the step
Before(q) ==
    CASE q = QUEUE_DELETED -> items_deleted
      [] q = QUEUE_CREATED -> items_created
      [] q = QUEUE_UPDATED -> items_updated
      [] q = QUEUE_MOVED   -> [ i \in 1..Len(items_moved) |-> items_moved[i].file ]

After(q) ==
    CASE q = QUEUE_DELETED -> items_deleted'
      [] q = QUEUE_CREATED -> items_created'
      [] q = QUEUE_UPDATED -> items_updated'
      [] q = QUEUE_MOVED   -> [ i \in 1..Len(items_moved') |-> items_moved'[i].file ]

\* C3: every run of the queue handler takes the head of the first non-empty
\* queue in the order deleted, created, updated, moved and leaves the other
\* queues alone; it takes nothing only when all four queues are empty.
C3_DrainOrder ==
    [][ last'.op = "item_queue_handlers_cb" =>
          /\ last'.queue = QUEUE_NONE =>
                \A k \in 1..4 : Before(DrainOrder[k]) = << >> /\ After(DrainOrder[k]) = << >>
          /\ \A k \in 1..4 :
                last'.queue = DrainOrder[k] =>
                    /\ \A j \in 1..(k - 1) : Before(DrainOrder[j]) = << >>
                    /\ Before(DrainOrder[k]) # << >>
                    /\ last'.file = Head(Before(DrainOrder[k]))
                    /\ After(DrainOrder[k]) = Tail(Before(DrainOrder[k]))
                    /\ \A j \in 1..4 :
                          j # k => After(DrainOrder[j]) = Before(DrainOrder[j])
          /\ last'.queue \in {QUEUE_NONE, QUEUE_DELETED, QUEUE_CREATED,
                              QUEUE_UPDATED, QUEUE_MOVED} ]_vars

\* C3, reached: the handler has just taken a deleted item while items wait in
\* the created or updated queue.
C3_Witness ==
    /\ last.op = "item_queue_handlers_cb"
    /\ last.queue = QUEUE_DELETED
    /\ items_created # << >> \/ items_updated # << >>

\* C4: in every reachable state the processing pool holds at most one entry
\* per URI.
C4_OneEntryPerURI ==
    \A i, j \in 1..Len(processing_pool) :
        i # j => processing_pool[i].file # processing_pool[j].file

\* C5: process-file is never emitted for a URI at or under a root that was
\* given to tracker_miner_fs_remove_directory and not added again.
C5_NoProcessFileUnderRemoved ==
    last.process_file # NoFile =>
        \A root \in removed : ~AtOrUnder(last.process_file, root)

\* C6: the step of tracker_miner_fs_remove_directory (R) leaves in each of
\* the four queues exactly the entries that are not at or under R (for a
\* move: neither its source nor its destination), in their order.
C6_QueuesPurged ==
    [][ last'.op = "tracker_miner_fs_remove_directory" =>
          /\ items_deleted' = Outside(items_deleted, last'.file)
          /\ items_created' = Outside(items_created, last'.file)
          /\ items_updated' = Outside(items_updated, last'.file)
          /\ items_moved' =
                SelectSeq(items_moved,
                          LAMBDA m : /\ ~AtOrUnder(m.file, last'.file)
                                     /\ ~AtOrUnder(m.source_file, last'.file)) ]_vars

\* C7: the step of tracker_miner_fs_remove_directory (R) keeps the pool's
\* entries, leaves every entry at or under R cancelled and changes the
\* cancel token of no entry outside R.
C7_CancelsExactlyUnderRoot ==
    [][ last'.op = "tracker_miner_fs_remove_directory" =>
          /\ Len(processing_pool') = Len(processing_pool)
          /\ \A i \in 1..Len(processing_pool) :
                /\ processing_pool'[i].id = processing_pool[i].id
                /\ processing_pool'[i].file = processing_pool[i].file
                /\ IF AtOrUnder(processing_pool[i].file, last'.file)
                   THEN processing_pool'[i].cancellable = "cancelled"
                   ELSE processing_pool'[i].cancellable =
                            processing_pool[i].cancellable ]_vars

\* C8: no ProcessData is freed twice, and the entry whose store reply has
\* just been delivered is no longer in the pool.
C8_ReleasedOnce ==
    /\ ~last.double_free
    /\ last.op = "sparql_update_cb" =>
          \A i \in 1..Len(processing_pool) : processing_pool[i].id # last.data

\* C9: "finished" is emitted only when the four queues and the pool are
\* empty, the crawler is not running, no batch update is unanswered and no
\* accepted extraction is still to be notified.
C9_FinishedOnlyWhenIdle ==
    last.finished =>
        /\ items_deleted = << >> /\ items_created = << >>
        /\ items_updated = << >> /\ items_moved = << >>
        /\ processing_pool = << >>
        /\ ~is_crawling
        /\ updates = EmptyBag
        /\ \A f \in Files : owed[f] = 0

\* nothing is scheduled and nothing is awaited: only a new monitor event or
\* a new root can make the miner act again
Quiescent ==
    /\ been_started
    /\ ~crashed
    /\ item_queues_handler_id = 0
    /\ crawl_directories_id = 0
    /\ ~is_crawling
    /\ updates = EmptyBag
    /\ \A f \in Files : owed[f] = 0

\* C10: in a run without pause in which every crawl has finished, every
\* accepted extraction was notified and every update was answered, the miner
\* comes to rest only with every queued item and every root dispatched and
\* the pool empty, which is when it emits "finished".
C10_NoStall ==
    Quiescent =>
        /\ items_deleted = << >> /\ items_created = << >>
        /\ items_updated = << >> /\ items_moved = << >>
        /\ directories = << >>
        /\ processing_pool = << >>

Busy ==
    \/ items_deleted # << >> \/ items_created # << >>
    \/ items_updated # << >> \/ items_moved # << >>
    \/ directories # << >> \/ is_crawling
    \/ processing_pool # << >> \/ updates # EmptyBag

\* C12: in a run in which the miner is not paused for ever, whenever work is
\* queued, in flight or being crawled, "finished" is emitted later: a pause
\* followed by a resume loses no item and does not keep the miner from
\* coming to rest, also when the queues are empty at the resume.
C12_ResumeLosesNoWork ==
    (<>[](~is_paused)) => (Busy ~> last.finished)

\* C13: the step of stop() leaves every pool entry cancelled, the four
\* queues empty and the crawler stopped, so that no process-file can follow.
C13_StopClearsAll ==
    [][ last'.op = "miner_stopped" =>
          /\ \A i \in 1..Len(processing_pool') :
                processing_pool'[i].cancellable = "cancelled"
          /\ items_deleted' = << >> /\ items_created' = << >>
          /\ items_updated' = << >> /\ items_moved' = << >>
          /\ ~is_crawling' ]_vars

\* the URI u is in the queue q
InQueue(u, q) == \E i \in 1..Len(q) : q[i] = u

\* C14: when Deleted(u) is enqueued, a Created(u) that is still queued is
\* removed from its queue, so that draining the queues never emits
\* process-file for u.
C14_DeletedRemovesCreated ==
    [][ Len(items_deleted') > Len(items_deleted) =>
          ~InQueue(items_deleted'[Len(items_deleted')], items_created') ]_vars

\* C15: when Created(u) is enqueued, an Updated(u) that is still queued is
\* removed from its queue, so that draining the queues emits process-file
\* for u once.
C15_CreatedRemovesUpdated ==
    [][ Len(items_created') > Len(items_created) =>
          ~InQueue(items_created'[Len(items_created')], items_updated') ]_vars

\* Deleted(u) is queued while the extraction of u is in flight
DeletedInFlight(u) == InQueue(u, items_deleted) /\ InFlight(u)

\* nothing is queued, in the pool, owed or unanswered for u
Settled(u) ==
    /\ Queued(u) = 0
    /\ \A i \in 1..Len(processing_pool) : processing_pool[i].file # u
    /\ \A x \in BagToSet(updates) : x.file # u
    /\ owed[u] = 0

\* C16: once Deleted(u) has arrived while the extraction of u was in flight,
\* whenever both have completed the store holds no resource for u, for
\* every pool limit and every order of the notify and the store's replies.
C16_DeletionTakesEffectLast ==
    \A u \in Files : [](DeletedInFlight(u) => [](Settled(u) => u \notin store))

\* C17: when Deleted(u) is enqueued while the pool holds an extraction of u,
\* the step leaves the cancellable of that entry cancelled.
C17_DeletedCancelsInFlight ==
    [][ Len(items_deleted') > Len(items_deleted) =>
          \A i \in 1..Len(processing_pool') :
              ( /\ processing_pool'[i].file = items_deleted'[Len(items_deleted')]
                /\ processing_pool'[i].cancellable # "none" )
                  => processing_pool'[i].cancellable = "cancelled" ]_vars

C19_NotifyErrorDropsEntry ==
    [][ ( /\ last'.op = "tracker_miner_fs_notify_file"
          /\ last'.error # "none"
          /\ process_data_find(processing_pool, last'.file) # 0 ) =>
          /\ processing_pool' =
                g_list_remove(processing_pool,
                              process_data_find(processing_pool, last'.file))
          /\ updates' = updates
          /\ UNCHANGED << items_created, items_updated, items_deleted,
                          items_moved >>
          /\ (~is_paused /\ Len(processing_pool') < pool_limit)
                => item_queues_handler_id' # 0 ]_vars

\* C19, reached: a notify with an error has just removed the entry of a file
\* while another item is queued, and the handler is installed again.
C19_Witness ==
    /\ last.op = "tracker_miner_fs_notify_file"
    /\ last.error # "none"
    /\ ~last.critical
    /\ process_data_find(processing_pool, last.file) = 0
    /\ items_created # << >> \/ items_updated # << >> \/ items_deleted # << >>
    /\ item_queues_handler_id # 0

\* C20: a notify for a URI that has no pool entry logs the critical message
\* and changes neither the queues, nor the pool, nor the handler, nor the
\* updates sent to the store.
C20_UnknownFileIsIgnored ==
    [][ ( /\ last'.op = "tracker_miner_fs_notify_file"
          /\ process_data_find(processing_pool, last'.file) = 0 ) =>
          /\ last'.critical
          /\ UNCHANGED << items_created, items_updated, items_deleted,
                          items_moved, processing_pool, item_queues_handler_id,
                          updates, store, is_paused >> ]_vars

\* C20, reached: a notify for a file that is not in the pool has just been
\* refused while an item is queued.
C20_Witness ==
    /\ last.op = "tracker_miner_fs_notify_file"
    /\ last.critical
    /\ items_created # << >> \/ items_updated # << >> \/ items_deleted # << >>

\* C21: when the store answers a batch update with an error, the entry the
\* update was sent for leaves the pool, the four queues and the store are
\* as before, and the queue handler is set up: it is installed afterwards
\* unless the miner is paused or the pool is still full.
C21_StoreErrorReleasesEntry ==
    [][ ( /\ last'.op = "sparql_update_cb"
          /\ last'.error = "StoreError"
          /\ PoolIndex(processing_pool, last'.data) # 0 ) =>
          /\ PoolIndex(processing_pool', last'.data) = 0
          /\ Len(processing_pool') = Len(processing_pool) - 1
          /\ UNCHANGED << items_created, items_updated, items_deleted,
                          items_moved, store >>
          /\ (~is_paused /\ Len(processing_pool') < pool_limit)
                => item_queues_handler_id' # 0 ]_vars

\* C21, reached: the store has just answered an update with an error while
\* another item is queued; the entry is gone and the handler is installed.
C21_Witness ==
    /\ last.op = "sparql_update_cb"
    /\ last.error = "StoreError"
    /\ ~last.double_free
    /\ items_created # << >> \/ items_updated # << >> \/ items_deleted # << >>
    /\ item_queues_handler_id # 0

\* C22: a run of the queue handler that takes Moved{from, to} while the
\* store does not know from does what a run that takes Created(to) does:
\* unless to is locked, it emits process-file for to and leaves the pool,
\* the updates sent to the store, the notifies owed and the handler as
\* item_add_or_update (to) leaves them for the same answer of the extractor.
C22_MoveUnknownSourceIsCreate ==
    [][ ( /\ last'.op = "item_queue_handlers_cb"
          /\ last'.queue = QUEUE_MOVED
          /\ ~item_query_exists(Head(items_moved).source_file) ) =>
          \/ /\ last'.locked
             /\ last'.process_file = NoFile
             /\ UNCHANGED << processing_pool, updates, owed,
                             item_queues_handler_id >>
          \/ \E processing \in BOOLEAN, sync \in {"none", "ok", "error"} :
                LET r == item_add_or_update(Head(items_moved).file,
                                            processing, sync)
                IN  /\ last'.process_file = Head(items_moved).file
                    /\ last'.declined = r.declined
                    /\ processing_pool' = r.pool
                    /\ updates' = r.updates
                    /\ owed' = IF r.accepted
                               THEN [owed EXCEPT ![r.process_file] = @ + 1]
                               ELSE owed
                    /\ item_queues_handler_id' =
                          IF r.retval THEN item_queues_handler_id ELSE 0 ]_vars

\* C22, reached: the handler has just taken a Moved item whose source the
\* store did not know and has emitted process-file for the destination.
C22_Witness ==
    /\ last.op = "item_queue_handlers_cb"
    /\ last.queue = QUEUE_MOVED
    /\ ~last.locked
    /\ last.process_file # NoFile
    /\ last.process_file = last.file

\* the resources st holds at or below from
Subtree(st, from) == { x \in st : x = from \/ g_file_has_prefix(x, from) }

\* the step in which item_move leaves its nested loop and sends the batch,
\* the store holding what it held when item_move began
Submits ==
    /\ move_data.main_loop
    /\ ~move_data'.main_loop
    /\ store = move_data.stored

\* the resources whose child query was sent and answered
LookedUp(md) ==
    { md.sparql[i][1] : i \in DOMAIN md.sparql } \ BagToSet(md.queries)

\* C23: while item_move waits, level is the number of child queries sent and
\* not answered and is never negative; the batch is sent only when level is
\* back at 0, and by then the children of every resource stored at or below
\* the source have been looked up, also when a query failed.
C23_BatchAfterEveryLookup ==
    [][ /\ move_data'.level = BagCardinality(move_data'.queries)
        /\ move_data'.level >= 0
        /\ Submits =>
              /\ move_data'.level = 0
              /\ \A x \in Subtree(store, move_data'.source_uri) :
                    x \in LookedUp(move_data') ]_vars

\* C24: the batch item_move sends holds exactly one "<x> tracker:uri <y>"
\* statement for the source and for every resource stored below it, with
\* y = destination + (x without the source prefix), and no other statement.
C24_BatchRewritesSubtree ==
    [][ Submits =>
          LET md == move_data'
              below == Subtree(store, md.source_uri)
              Rewritten(x) == md.uri \o SubSeq(x, Len(md.source_uri) + 1, Len(x))
          IN  /\ \A x \in below :
                    Cardinality({ i \in DOMAIN md.sparql : md.sparql[i][1] = x }) = 1
              /\ \A i \in DOMAIN md.sparql :
                    /\ md.sparql[i][1] \in below
                    /\ md.sparql[i][2] = Rewritten(md.sparql[i][1])
              /\ \E u \in BagToSet(updates') :
                    /\ u.kind = "move"
                    /\ u.data = processing_pool'[1].id
                    /\ u.rewrites = { md.sparql[i] : i \in DOMAIN md.sparql } ]_vars

\* C25: a move event whose source the monitor does not watch is a discovery
\* of the destination: a directory is appended to the directories to crawl,
\* recursively; a file that the check-file predicate lets through is pushed
\* to the tail of the created queue; nothing is pushed to the moved or the
\* deleted queue.
C25_UnmonitoredMoveIsDiscovery ==
    [][ ( /\ last'.op = "monitor_item_moved_cb"
          /\ ~last'.is_source_monitored ) =>
          /\ items_moved' = items_moved
          /\ items_deleted' = items_deleted
          /\ IF last'.is_directory
             THEN /\ directories' =
                       Append(directories, [file |-> last'.file, recurse |-> TRUE])
                  /\ items_created' = items_created
             ELSE /\ directories' = directories
                  /\ items_created' =
                        IF last'.should_process
                        THEN Append(items_created, last'.file)
                        ELSE items_created ]_vars

\* a <= b for fractions << n, d >> with d > 0
FractionLeq(a, b) == a[1] * b[2] <= b[1] * a[2]

\* C26: within a crawl the values written to "progress" never decrease.  A
\* value below 1 was written in the crawl that is still running (the end
\* of a crawl writes 1): no value the queue handler writes after it is
\* smaller than the one before.
C26_ProgressNeverDecreases ==
    [][ ( /\ last'.op = "item_queue_handlers_cb"
          /\ last'.written # << >>
          /\ progress[1] < progress[2] ) =>
          LET values == << progress >> \o last'.written
          IN  \A i \in 1..(Len(values) - 1) :
                 FractionLeq(values[i], values[i + 1]) ]_vars

\* C27: with items_total > 0 and items_pending <= items_total, the progress
\* the queue handler computes is (items_total - items_pending) / items_total,
\* items_total being the directories and files found and items_pending the
\* sum of the lengths of the four queues; it is 1 when nothing is pending.
C27_ProgressFormula ==
    [][ LET items_total == total_directories_found + total_files_found
            items_pending == Len(items_deleted') + Len(items_created')
                               + Len(items_updated') + Len(items_moved')
        IN  ( /\ last'.op = "item_queue_handlers_cb"
              /\ last'.written # << >>
              /\ items_total > 0
              /\ items_pending <= items_total ) =>
              /\ last'.written[1][1] * items_total =
                    (items_total - items_pending) * last'.written[1][2]
              /\ items_pending = 0 =>
                    last'.written[1][1] = last'.written[1][2] ]_vars

\* C28: tracker_miner_fs_set_throttle leaves the four queues and the pool as
\* they are; the queue handler and the crawl-directories hook are installed
\* after the call exactly if they were installed before it, so the handler
\* is not installed by a call made while the miner is paused.
C28_ThrottleKeepsWork ==
    [][ last'.op = "tracker_miner_fs_set_throttle" =>
          /\ UNCHANGED << items_created, items_updated, items_deleted,
                          items_moved, processing_pool >>
          /\ (item_queues_handler_id' # 0) = (item_queues_handler_id # 0)
          /\ (crawl_directories_id' # 0) = (crawl_directories_id # 0)
          /\ is_paused' => item_queues_handler_id' = 0 ]_vars

\* the throttle was raised while the handler was installed, with work in
\* the queues and in the pool
C28_Witness ==
    /\ last.op = "tracker_miner_fs_set_throttle"
    /\ throttle = 1
    /\ Waiting > 0
    /\ processing_pool # << >>
    /\ item_queues_handler_id # 0

\* the queue handler has just found the item it popped locked
LockedPop(q) ==
    /\ last'.op = "item_queue_handlers_cb"
    /\ last'.locked
    /\ last'.queue = q

\* C29: a popped item that is locked is pushed back to the tail of the queue
\* it came from, and nothing is dispatched in that run of the queue
\* handler.
C29_LockedItemRequeued ==
    [][ /\ LockedPop(QUEUE_DELETED) =>
              items_deleted' = Append(Tail(items_deleted), Head(items_deleted))
        /\ LockedPop(QUEUE_CREATED) =>
              items_created' = Append(Tail(items_created), Head(items_created))
        /\ LockedPop(QUEUE_UPDATED) =>
              items_updated' = Append(Tail(items_updated), Head(items_updated))
        /\ LockedPop(QUEUE_MOVED) =>
              items_moved' = Append(Tail(items_moved), Head(items_moved))
        /\ (last'.op = "item_queue_handlers_cb" /\ last'.locked) =>
              /\ last'.process_file = NoFile
              /\ UNCHANGED << processing_pool, updates >> ]_vars

\* q is an initial part of r
IsPrefix(q, r) == Len(q) <= Len(r) /\ SubSeq(r, 1, Len(q)) = q

\* one step of the queue named name: items are added at its tail, or its
\* head is taken by the queue handler and dispatched
FifoStep(name, q, r) ==
    \/ IsPrefix(q, r)
    \/ /\ q # << >>
       /\ r = Tail(q)
       /\ last'.op = "item_queue_handlers_cb"
       /\ last'.queue = name
       /\ ~last'.locked

\* C30: each queue is first-in first-out and, with no root removed, loses
\* no item and repeats none: whatever is called (pause, resume, a change of
\* throttle included), a queue changes only by items added at its tail and
\* by the queue handler dispatching its head.
C30_FifoExactlyOnce ==
    [][ /\ FifoStep(QUEUE_DELETED, items_deleted, items_deleted')
        /\ FifoStep(QUEUE_CREATED, items_created, items_created')
        /\ FifoStep(QUEUE_UPDATED, items_updated, items_updated')
        /\ FifoStep(QUEUE_MOVED, items_moved, items_moved') ]_vars

\* the files of the found queue that do not carry the mark, in the order found
Unmarked(found, marks) ==
    LET kept == SelectSeq(found, LAMBDA e : e.file \notin marks)
    IN  [ i \in 1..Len(kept) |-> kept[i].file ]

\* C31: crawler_check_directory_cb returns what check-directory returned, so
\* a directory that passes it but is up to date is still descended into, and
\* that directory carries the ignore mark; crawler_finished_cb appends to
\* the created queue exactly the found files without the mark, in the order
\* found, and so no marked file.
C31_MarkedDescendedNotQueued ==
    [][ /\ ( /\ last'.op = "crawler_check_directory_cb"
             /\ last'.should_check
             /\ ~last'.should_change_index )
           => ( last'.return_val /\ last'.file \in quark_ignore_file' )
        /\ last'.op = "crawler_finished_cb"
           => /\ items_created' =
                    items_created \o Unmarked(last'.found, quark_ignore_file)
              /\ \A i \in 1..Len(last'.found) :
                    last'.found[i].file \in quark_ignore_file
                    => Len(SelectSeq(items_created',
                                     LAMBDA f : f = last'.found[i].file))
                       = Len(SelectSeq(items_created,
                                       LAMBDA f : f = last'.found[i].file))
      ]_vars

\* C31: a crawl has handed over a marked directory and a file below it, and
\* the file alone was queued
C31_Witness ==
    /\ last.op = "crawler_finished_cb"
    /\ Len(last.found) = 2
    /\ last.found[1].ignore
    /\ ~last.found[2].ignore
    /\ items_created = << last.found[2].file >>

\* C38: during a crawl a watch is installed on a directory only if
\* check-directory accepted it and monitor-directory returned true.
C38_WatchOnlyIfChecked ==
    [][ \A d \in monitor' \ monitor :
            /\ last'.op = "crawler_check_directory_cb"
            /\ last'.file = d
            /\ last'.should_check
            /\ last'.add_monitor ]_vars

\* C33: the lifetime totals of found directories and files never decrease:
\* crawler_finished_cb adds the counts of the crawl that ended to them, and
\* no other step changes them.
C33_TotalsNeverDecrease ==
    [][ /\ total_directories_found' >= total_directories_found
        /\ total_files_found' >= total_files_found
        /\ ( \/ total_directories_found' # total_directories_found
             \/ total_files_found' # total_files_found ) => ~is_crawling'
      ]_vars

\* C35: a move event whose source the monitor watches has exactly one of
\* four outcomes, chosen by whether the source is in the store and whether
\* the destination passes the check: neither, nothing is queued; not stored
\* and passes, a directory becomes a recursive root to crawl and a file is
\* pushed to the created queue; stored and fails, the source is pushed to
\* the deleted queue; stored and passes, one moved item { from, to } is
\* pushed to the moved queue.  No other queue changes.
C35_MonitoredMoveOutcomes ==
    [][ ( /\ last'.op = "monitor_item_moved_cb"
          /\ last'.is_source_monitored ) =>
        LET from == last'.source_file
            to == last'.file
            stored == from \in store
            passes == last'.should_process
            root == stored = FALSE /\ passes /\ last'.is_directory
            created == stored = FALSE /\ passes /\ ~last'.is_directory
        IN  /\ items_updated' = items_updated
            /\ directories' =
                  IF root
                  THEN Append(directories, [file |-> to, recurse |-> TRUE])
                  ELSE directories
            /\ items_created' =
                  IF created THEN Append(items_created, to) ELSE items_created
            /\ items_deleted' =
                  IF stored /\ ~passes
                  THEN Append(items_deleted, from) ELSE items_deleted
            /\ items_moved' =
                  IF stored /\ passes
                  THEN Append(items_moved, [file |-> to, source_file |-> from])
                  ELSE items_moved ]_vars

\* C35: the monitor has reported the move of a watched and stored file to a
\* destination that passes the check, and the move is queued
C35_Witness ==
    /\ last.op = "monitor_item_moved_cb"
    /\ last.is_source_monitored
    /\ last.should_process
    /\ last.source_file \in store
    /\ items_moved # << >>
    /\ items_moved[Len(items_moved)] =
          [file |-> last.file, source_file |-> last.source_file]

\* C39: tracker_miner_fs_remove_directory(R) takes out of the pending roots
\* exactly the roots that are R or lie under R, keeping the others in their
\* order, and returns TRUE exactly if it took out a pending root or stopped
\* a crawl whose root is R or lies under R.
C39_RemovesRootsUnder ==
    [][ last'.op = "tracker_miner_fs_remove_directory" =>
        LET R == last'.file
            kept == SelectSeq(directories, LAMBDA d : ~AtOrUnder(d.file, R))
            stopped == /\ current_directory # NoDirectory
                       /\ AtOrUnder(current_directory.file, R)
        IN  /\ directories' = kept
            /\ last'.return_val = (kept # directories \/ stopped) ]_vars

\* C37: finished is not emitted while a root waits in the list of directories
\* to crawl or while the crawl-directories hook is scheduled.
C37_NoFinishedWithRootsPending ==
    last.finished => (directories = << >> /\ crawl_directories_id = 0)

\* C36: one root at most is crawled at a time and the pending roots are
\* crawled in the order they were added: a crawl begins only when no root is
\* being crawled and the miner has been started, and it takes the head of
\* the pending roots; a root leaves the pending list only from its head, and
\* a new root joins it at the tail, also during a crawl; when a crawl ends
\* the hook that starts the next one is scheduled.
C36_OneCrawlInOrder ==
    [][ /\ (is_crawling' /\ ~is_crawling) =>
              /\ been_started
              /\ current_directory = NoDirectory
              /\ directories # << >>
              /\ current_directory' = Head(directories)
              /\ directories' = Tail(directories)
        /\ is_crawling' => (been_started' /\ current_directory' # NoDirectory)
        /\ (is_crawling /\ is_crawling') => current_directory' = current_directory
        /\ \/ directories' = directories
           \/ directories # << >> /\ directories' = Tail(directories)
           \/ \E d \in Dirs, r \in BOOLEAN :
                 directories' = Append(directories, [file |-> d, recurse |-> r])
        /\ (is_crawling /\ ~is_crawling') => crawl_directories_id' # 0
        /\ (been_started' /\ directories' # << >> /\ ~is_crawling')
              => crawl_directories_id' # 0
      ]_vars

\* C36: a root was added during a crawl; the hook has run and left it
\* pending, and the crawl goes on
C36_Witness ==
    /\ is_crawling
    /\ directories # << >>
    /\ crawl_directories_id = 0

\* C32: when the crawler does not start on a root, the hook drops that root
\* alone and stays scheduled for the next one; when it finds no root left it
\* installs the queue handler (unless the pool is full, whose entries
\* install it when they complete); and finished is emitted in the end.
C32_FailedStartSkipsRoot ==
    /\ [][ last'.op = "crawl_directories_cb" =>
             /\ last'.return_val =>
                   /\ directories' = Tail(directories)
                   /\ current_directory' = NoDirectory
                   /\ ~is_crawling'
                   /\ crawl_directories_id' # 0
                   /\ UNCHANGED << items_created, items_updated, items_deleted,
                                   items_moved, processing_pool >>
             /\ (current_directory = NoDirectory /\ directories = << >>) =>
                   \/ item_queues_handler_id' # 0
                   \/ Len(processing_pool) >= pool_limit ]_vars
    /\ (last.op = "crawl_directories_cb" /\ last.return_val) ~> last.finished

\* C32: the crawler has refused the first of two roots, and the second is
\* still to be crawled
C32_Witness ==
    /\ last.op = "crawl_directories_cb"
    /\ last.return_val
    /\ directories # << >>
    /\ crawl_directories_id # 0

\* C34: every TrackerDataProvider function, when its vfunc is not provided,
\* returns its failure value with G_IO_ERROR_NOT_SUPPORTED and calls
\* nothing; begin and end, given a cancelled token, return failure with
\* G_IO_ERROR_CANCELLED and call nothing; otherwise the vfunc is called once
\* and its value and error are what the caller gets.
C34_NotProvidedOrCancelled ==
    provider.op \in ProviderOps =>
        /\ provider.op \notin provider.iface =>
              /\ provider.value = FailureValue(provider.op)
              /\ provider.error = "G_IO_ERROR_NOT_SUPPORTED"
              /\ provider.calls = 0
        /\ provider.cancelled =>
              /\ provider.value = FailureValue(provider.op)
              /\ provider.error = "G_IO_ERROR_CANCELLED"
              /\ provider.calls = 0
        /\ (provider.op \in provider.iface /\ ~provider.cancelled) =>
              /\ provider.calls = 1
              /\ provider.value = provider.impl.value
              /\ provider.error = provider.impl.error

\* C34: as above, with the cancelled token looked at first: begin and end,
\* given a cancelled token, fail with G_IO_ERROR_CANCELLED whether or not
\* the vfunc is provided; a call that is not cancelled fails with
\* G_IO_ERROR_NOT_SUPPORTED when the vfunc is not provided, and otherwise
\* calls the vfunc once and returns its value and error.
C34_CancelledThenNotProvided ==
    provider.op \in ProviderOps =>
        /\ provider.cancelled => provider.op \in {"begin", "end"}
        /\ IF provider.cancelled
           THEN /\ provider.value = FailureValue(provider.op)
                /\ provider.error = "G_IO_ERROR_CANCELLED"
                /\ provider.calls = 0
           ELSE IF provider.op \notin provider.iface
           THEN /\ provider.value = FailureValue(provider.op)
                /\ provider.error = "G_IO_ERROR_NOT_SUPPORTED"
                /\ provider.calls = 0
           ELSE /\ provider.calls = 1
                /\ provider.value = provider.impl.value
                /\ provider.error = provider.impl.error

\* C34: begin was called with a cancelled token on an implementation that
\* provides it, and the vfunc was not called
C34_Witness ==
    /\ provider.op = "begin"
    /\ "begin" \in provider.iface
    /\ provider.cancelled
    /\ provider.calls = 0
    /\ provider.error = "G_IO_ERROR_CANCELLED"

\* C40: once the handler has run for a SIGTERM or a SIGINT, main reaches
\* the code after the shutdown label (or the process has ended), wherever
\* main was when the signal arrived.
C40_SignalLeadsToShutdown ==
    daemon.in_loop ~> daemon.pc \in { "shutdown" } \cup Ended

====
